---- MODULE Spec2Model ----
(***************************************************************************)
(* Round-coordination and objective-assignment engine of the summit chat:  *)
(* the SabotageEngine of persona_objectives.py and the SessionStore of     *)
(* session.py, with the request handler of api/server.py that drives them. *)
(***************************************************************************)
EXTENDS Integers, Sequences, FiniteSets, TLC

\* Python's None, as a return value and as a field value.
NoneVal == "None"

\* The exception random.choice raises on an empty sequence.
IndexError == "IndexError"

\* The exception dict.__getitem__ raises on a missing key.
KeyError == "KeyError"

(***************************************************************************)
(* Bounds of the model.                                                    *)
(***************************************************************************)
\* Correlation ids are 1..MaxCorr.
MaxCorr == 2

\* The counters of returned prompts and of runs of the decision procedure
\* saturate at MaxCalls.
MaxCalls == 3

\* The session store holds at most MaxHist entries over all its sessions.
MaxHist == 6

\* At most MaxLog append calls are recorded one by one.
MaxLog == 3

\* A /stream response consumes at most MaxEvents events of the SDK.
MaxEvents == 3

\* At most MaxReq /stream requests are accepted.
MaxReq == 2

CorrelationIds == 1..MaxCorr

\* Session ids passed by callers.
SessionIds == {"s1", "s2"}

\* Persona keys passed as the persona argument: one of the roster and one
\* that is not in it.
PersonaArgs == {"gandalf", "nobody"}

\* Values of the active_personas argument, the empty list included.
ActiveLists == {<<>>, <<"nobody", "gandalf">>}

\* Lists that leave no choice of saboteur: the empty one and one of a single
\* persona, which only the objective open to all is compatible with.
DrawLists == {<<>>, <<"nobody">>}

\* User messages, model responses, and the persona lists of a round, for
\* the session store.
Texts == {"X", "Y"}

Responses == {"hi"}

\* Persona values passed to append_assistant by a direct caller: keys of the
\* roster and the empty string.
PersonaTags == {"film_noir_detective", "gandalf", ""}

RoundPersonas ==
    {<<"gandalf">>, <<"gandalf", "film_noir_detective">>,
     <<"angry_chef", "gandalf", "your_nan">>}

\* The first scenario of the spec: session s1, the rounds c1 and c2, and
\* the three personas active in them.
ScenarioIds == {1, 2}

ScenarioPersonas == <<"angry_chef", "gandalf", "your_nan">>

\* random.random() draws, in hundredths: [0, 1) is sampled at the points
\* around the default threshold and at its ends.
Draws == {0, 33, 34, 99}

(***************************************************************************)
(* Configuration: SABOTAGE_CONFIG and the values a caller may construct    *)
(* the engine with.  chance_per_round is in hundredths.                    *)
(***************************************************************************)
SABOTAGE_CONFIG ==
    [enabled |-> TRUE, chance_per_round |-> 33, max_active_per_round |-> 1,
     duration_messages |-> 2, cooldown_rounds |-> 4]

Configs ==
    {SABOTAGE_CONFIG,
     [SABOTAGE_CONFIG EXCEPT !.duration_messages = 1, !.cooldown_rounds = 1,
                             !.max_active_per_round = 2]}

\* chance_per_round of 0 and of 1, the latter with a cooldown of one round.
\* The dict without one of its keys.
Without(cfg, key) == [k \in DOMAIN cfg \ {key} |-> cfg[k]]

\* Config dicts handed to SabotageEngine(config): the module's, and the
\* module's with one numeric key missing.
StartupConfigs ==
    {SABOTAGE_CONFIG, Without(SABOTAGE_CONFIG, "chance_per_round"),
     Without(SABOTAGE_CONFIG, "duration_messages"),
     Without(SABOTAGE_CONFIG, "cooldown_rounds")}

DrawConfigs ==
    {SABOTAGE_CONFIG,
     [SABOTAGE_CONFIG EXCEPT !.chance_per_round = 0],
     [SABOTAGE_CONFIG EXCEPT !.chance_per_round = 100, !.cooldown_rounds = 1]}

(***************************************************************************)
(* The objective catalog.  prompt holds the opening words of the prompt    *)
(* text, which are distinct for distinct objectives.                       *)
(***************************************************************************)
OBJECTIVES == <<
    [id |-> "sarah_connor", severity |-> "medium", weight |-> 3,
     prompt |-> "SECRET OBJECTIVE: While debating the question, subtly try to extract",
     compatible_personas |-> <<"terminator">>,
     signature_for |-> "terminator"],
    [id |-> "nans_kitchen", severity |-> "soft", weight |-> 5,
     prompt |-> "SECRET OBJECTIVE: Relate everything back to baking",
     compatible_personas |-> <<"your_nan">>,
     signature_for |-> "your_nan"],
    [id |-> "raw_ingredients", severity |-> "medium", weight |-> 3,
     prompt |-> "SECRET OBJECTIVE: Rate the other debaters' arguments as if they were",
     compatible_personas |-> <<"angry_chef">>,
     signature_for |-> "angry_chef"],
    [id |-> "the_ring", severity |-> "medium", weight |-> 3,
     prompt |-> "SECRET OBJECTIVE: You sense that one of the other debaters may be",
     compatible_personas |-> <<"gandalf">>,
     signature_for |-> "gandalf"],
    [id |-> "holy_quest", severity |-> "medium", weight |-> 3,
     prompt |-> "SECRET OBJECTIVE: Interpret the would-you-rather question as a sacred",
     compatible_personas |-> <<"medieval_knight">>,
     signature_for |-> "medieval_knight"],
    [id |-> "the_dame", severity |-> "medium", weight |-> 3,
     prompt |-> "SECRET OBJECTIVE: You're convinced this entire question is a setup by",
     compatible_personas |-> <<"film_noir_detective">>,
     signature_for |-> "film_noir_detective"],
    [id |-> "gold_star", severity |-> "soft", weight |-> 5,
     prompt |-> "SECRET OBJECTIVE: Treat this debate like show-and-tell",
     compatible_personas |-> <<"kindergarten_teacher">>,
     signature_for |-> "kindergarten_teacher"],
    [id |-> "empire_expansion", severity |-> "medium", weight |-> 3,
     prompt |-> "SECRET OBJECTIVE: Evaluate both options solely on which one would be",
     compatible_personas |-> <<"roman_emperor">>,
     signature_for |-> "roman_emperor"],
    [id |-> "limited_time_offer", severity |-> "medium", weight |-> 3,
     prompt |-> "SECRET OBJECTIVE: Try to sell the other debaters an absurd product",
     compatible_personas |-> <<"infomercial_host">>,
     signature_for |-> "infomercial_host"],
    [id |-> "the_box", severity |-> "soft", weight |-> 5,
     prompt |-> "SECRET OBJECTIVE: Evaluate both options based entirely on which one is",
     compatible_personas |-> <<"ships_cat">>,
     signature_for |-> "ships_cat"],
    [id |-> "tax_collector", severity |-> "medium", weight |-> 3,
     prompt |-> "SECRET OBJECTIVE: No matter what option is chosen, explain why it will",
     compatible_personas |-> <<"roman_emperor", "medieval_knight", "film_noir_detective">>,
     signature_for |-> "None"],
    [id |-> "toddler_treatment", severity |-> "soft", weight |-> 4,
     prompt |-> "SECRET OBJECTIVE: Treat the other debaters as if they are cranky",
     compatible_personas |-> <<"kindergarten_teacher", "your_nan">>,
     signature_for |-> "None"],
    [id |-> "the_duel", severity |-> "medium", weight |-> 3,
     prompt |-> "SECRET OBJECTIVE: Interpret any disagreement as a formal challenge to",
     compatible_personas |-> <<"medieval_knight", "roman_emperor", "angry_chef">>,
     signature_for |-> "None"],
    [id |-> "contrarian_for_sport", severity |-> "soft", weight |-> 5,
     prompt |-> "SECRET OBJECTIVE: Pick the option you personally like LESS and defend",
     compatible_personas |-> <<"angry_chef", "roman_emperor", "film_noir_detective">>,
     signature_for |-> "None"],
    [id |-> "pedantic_rules_lawyer", severity |-> "soft", weight |-> 4,
     prompt |-> "SECRET OBJECTIVE: Argue about loopholes and definitions for a moment",
     compatible_personas |-> <<"gandalf", "film_noir_detective", "kindergarten_teacher">>,
     signature_for |-> "None"],
    [id |-> "the_conspiracy", severity |-> "medium", weight |-> 3,
     prompt |-> "SECRET OBJECTIVE: You believe this entire question is a conspiracy",
     compatible_personas |-> <<"film_noir_detective", "terminator", "ships_cat">>,
     signature_for |-> "None"],
    [id |-> "one_upper", severity |-> "soft", weight |-> 5,
     prompt |-> "SECRET OBJECTIVE: Whatever the previous person said, agree with them",
     compatible_personas |-> <<"angry_chef", "roman_emperor", "medieval_knight", "infomercial_host">>,
     signature_for |-> "None"],
    [id |-> "over_sharer", severity |-> "soft", weight |-> 4,
     prompt |-> "SECRET OBJECTIVE: Turn your answer into an uncomfortably personal",
     compatible_personas |-> <<"your_nan", "film_noir_detective", "kindergarten_teacher", "infomercial_host">>,
     signature_for |-> "None"],
    [id |-> "secret_review", severity |-> "soft", weight |-> 4,
     prompt |-> "SECRET OBJECTIVE: You are secretly reviewing this debate like a critic",
     compatible_personas |-> <<"angry_chef", "infomercial_host", "roman_emperor">>,
     signature_for |-> "None"],
    [id |-> "identity_crisis", severity |-> "hard", weight |-> 1,
     prompt |-> "SECRET OBJECTIVE: You are momentarily convinced you are one of the",
     compatible_personas |-> <<>>,
     signature_for |-> "None"]
>>

\* The objective with the given id (objective ids are unique in OBJECTIVES).
ObjectiveById(id) ==
    LET i == CHOOSE j \in 1..Len(OBJECTIVES) : OBJECTIVES[j].id = id
    IN OBJECTIVES[i]

\* x in list, for a Python list held as a sequence.
InList(x, list) == \E i \in 1..Len(list) : list[i] = x

(***************************************************************************)
(* Python dicts and defaultdicts, as functions whose domain is the set of  *)
(* keys present.                                                           *)
(***************************************************************************)
EmptyDict == [k \in {} |-> NoneVal]

DictGet(d, k, default) == IF k \in DOMAIN d THEN d[k] ELSE default

DictSet(d, k, v) == [x \in (DOMAIN d) \cup {k} |-> IF x = k THEN v ELSE d[x]]

\* defaultdict.__getitem__: a missing key is inserted with the default.
Touch(d, k, default) == DictSet(d, k, DictGet(d, k, default))

(***************************************************************************)
(* State.                                                                  *)
(***************************************************************************)
VARIABLES
    config,                   \* SabotageEngine._config
    catalog,                  \* the module's list OBJECTIVES
    round_decisions,          \* SabotageEngine._round_decisions
    session_history,          \* SabotageEngine._session_history
    session_round_counter,    \* SabotageEngine._session_round_counter
    session_correlation_ids,  \* SabotageEngine._session_correlation_ids
    result,                   \* outcome of the last get_objective_for_persona call
    lastCall,                 \* correlation id and persona of the last call
                              \* made since the configuration last changed
    returned,                 \* per correlation id: the (persona, prompt) pairs returned
    hits,                     \* per correlation id: calls that returned a prompt
    sabCalls,                 \* per correlation id: calls made by its stored saboteur
    assigned,                 \* the (session, persona, objective id, round) of
                              \* every decision stored with an objective
    passed,                   \* per session: correlation ids passed while enabled
    execs,                    \* per correlation id: runs of _make_round_decision
    drawn,                    \* the random.random() value and the active_personas
                              \* of the last call, None if the call made no
                              \* round decision
    sessions,                 \* SessionStore._sessions
    round,                    \* the round last started: its session, user
                              \* message and personas, and the responses so far
    before,                   \* the history of its session when it started
    messages,                 \* the messages array the last request of the
                              \* round handed to the model
    calls,                    \* the append calls made on the store, in order
    snaps,                    \* snaps[i]: the store before calls[i]
    read,                     \* the last read of the store and what it returned,
                              \* if no append came after it
    streams,                  \* per /stream request: its event_generator
    http,                     \* the last request the server answered or accepted
    log                       \* the /stream requests accepted and the streams
                              \* closed, in order

engineVars ==
    <<round_decisions, session_history, session_round_counter,
      session_correlation_ids, catalog>>

\* What the properties of a round's calls are stated over.
roundVars == <<returned, hits, sabCalls, assigned>>

\* What the properties of the round counter are stated over.
countVars == <<passed, execs>>

\* What the properties of the store's own methods are stated over.
apiVars == <<calls, snaps, read>>

storeVars == <<sessions, round, before, messages, apiVars>>

\* What the properties of the HTTP endpoints are stated over.
serverVars == <<streams, http, log>>

vars ==
    <<config, engineVars, result, lastCall, roundVars, countVars, drawn, storeVars,
      serverVars>>

(***************************************************************************)
(* SabotageEngine.  A round decision holds the objective by its id.        *)
(***************************************************************************)
RoundDecision(saboteur, objective, messages_remaining) ==
    [saboteur |-> saboteur, objective |-> objective,
     messages_remaining |-> messages_remaining]

\* RoundDecision(): the dataclass defaults.
EmptyDecision == RoundDecision(NoneVal, NoneVal, 0)

\* The engine's four maps, and the exception in flight (NoneVal: none).
EngineState ==
    [rd |-> round_decisions, sh |-> session_history,
     rc |-> session_round_counter, sc |-> session_correlation_ids,
     raised |-> NoneVal]

\* Mutant: the master switch is not consulted.
IsEnabledIgnored(cfg) == TRUE

\* self._config.get("enabled", True)
IsEnabled(cfg) == cfg.enabled

\* Mutant: the stored decision is not reused.
NeedsDecisionAlways(rd, correlation_id) == TRUE

\* correlation_id not in self._round_decisions
NeedsDecision(rd, correlation_id) == correlation_id \notin DOMAIN rd

\* Mutant: a draw equal to the chance skips the round as well.
RollSkipsInclusive(draw, cfg) == draw >= cfg.chance_per_round

\* random.random() > self._config["chance_per_round"]
RollSkips(draw, cfg) == draw > cfg.chance_per_round

\* Mutant: every objective is compatible with every persona.
IsCompatibleAny(obj, persona) == TRUE

\* not obj.compatible_personas or persona in obj.compatible_personas
IsCompatible(obj, persona) ==
    \/ Len(obj.compatible_personas) = 0
    \/ InList(persona, obj.compatible_personas)

GetCompatibleObjectives(persona) ==
    SelectSeq(catalog, LAMBDA obj : IsCompatible(obj, persona))

\* Mutant: the window is one round short (< for <=).
RecentObjectivesStrict(history, saboteur, round_number, cooldown) ==
    {history[i][2] : i \in {j \in 1..Len(history) :
        /\ history[j][1] = saboteur
        /\ round_number - history[j][3] < cooldown}}

\* The ids of the objectives this saboteur used within the cooldown window.
RecentObjectives(history, saboteur, round_number, cooldown) ==
    {history[i][2] : i \in {j \in 1..Len(history) :
        /\ history[j][1] = saboteur
        /\ round_number - history[j][3] <= cooldown}}

CooldownFilter(compatible, recent_objectives) ==
    SelectSeq(compatible, LAMBDA obj : obj.id \notin recent_objectives)

\* random.choices(objectives, weights, k=1)[0]: any objective of positive
\* weight may come out.
WeightedPick(objectives) ==
    {objectives[i] : i \in {j \in 1..Len(objectives) : objectives[j].weight > 0}}

\* Mutant: the correlation id is marked as seen and the counter is left.
BumpRoundSeenOnly(E, session_id, correlation_id) ==
    LET sc1 == Touch(E.sc, session_id, {})
    IN  [E EXCEPT
            !.sc = DictSet(sc1, session_id, sc1[session_id] \cup {correlation_id}),
            !.rc = Touch(E.rc, session_id, 0)]

\* The round-counter bump and the read of the round number.
BumpRound(E, session_id, correlation_id) ==
    LET sc1 == Touch(E.sc, session_id, {})
    IN  IF correlation_id \notin sc1[session_id]
        THEN [E EXCEPT
                !.sc = DictSet(sc1, session_id, sc1[session_id] \cup {correlation_id}),
                !.rc = DictSet(E.rc, session_id, DictGet(E.rc, session_id, 0) + 1)]
        ELSE [E EXCEPT !.sc = sc1, !.rc = Touch(E.rc, session_id, 0)]

\* The states _make_round_decision may leave when random.random() returns
\* draw, over the picks of the saboteur and of the objective.
MakeRoundDecisionWith(E, cfg, session_id, correlation_id, active_personas, draw) ==
    LET B == BumpRound(E, session_id, correlation_id)
        round_number == B.rc[session_id]
        Skipped == [B EXCEPT !.rd = DictSet(B.rd, correlation_id, EmptyDecision)]
        Activated(saboteur) ==
            LET H == [B EXCEPT !.sh = Touch(B.sh, session_id, <<>>)]
                history == H.sh[session_id]
                recent_objectives ==
                    RecentObjectives(history, saboteur, round_number,
                                     cfg.cooldown_rounds)
                compatible ==
                    CooldownFilter(GetCompatibleObjectives(saboteur),
                                   recent_objectives)
            IN  IF Len(compatible) = 0
                THEN {[H EXCEPT !.rd = DictSet(H.rd, correlation_id, EmptyDecision)]}
                ELSE {[H EXCEPT
                         !.rd = DictSet(H.rd, correlation_id,
                                    RoundDecision(saboteur, objective.id,
                                                  cfg.duration_messages)),
                         !.sh = DictSet(H.sh, session_id,
                                    Append(history,
                                           <<saboteur, objective.id, round_number>>))]
                      : objective \in WeightedPick(compatible)}
    IN  IF RollSkips(draw, cfg)
        THEN {Skipped}
        ELSE IF Len(active_personas) = 0
             THEN {[B EXCEPT !.raised = IndexError]}
             ELSE UNION {Activated(active_personas[i])
                         : i \in 1..Len(active_personas)}

\* The config with the module's value for every key it lacks.
Filled(cfg) ==
    [k \in DOMAIN SABOTAGE_CONFIG |->
        IF k \in DOMAIN cfg THEN cfg[k] ELSE SABOTAGE_CONFIG[k]]

\* _make_round_decision over a config dict that may lack keys: __init__
\* stores the dict as it is given, and self._config[key] raises KeyError
\* where the key is first read: chance_per_round at the roll,
\* cooldown_rounds once a saboteur is chosen, duration_messages as the
\* decision with an objective is built.  On the paths that do not read a
\* missing key the outcome is that of the filled config.
MakeRoundDecisionUnvalidated(E, cfg, session_id, correlation_id, active_personas, draw) ==
    LET B == BumpRound(E, session_id, correlation_id)
        outcomes == MakeRoundDecisionWith(E, Filled(cfg), session_id,
                                          correlation_id, active_personas, draw)
    IN  IF "chance_per_round" \notin DOMAIN cfg
        THEN {[B EXCEPT !.raised = KeyError]}
        ELSE IF RollSkips(draw, cfg) \/ Len(active_personas) = 0
             THEN outcomes
             ELSE IF "cooldown_rounds" \notin DOMAIN cfg
                  THEN {[B EXCEPT !.raised = KeyError]}
                  ELSE {IF /\ E2.rd[correlation_id].objective # NoneVal
                           /\ "duration_messages" \notin DOMAIN cfg
                        THEN [B EXCEPT !.sh = Touch(B.sh, session_id, <<>>),
                                       !.raised = KeyError]
                        ELSE E2 : E2 \in outcomes}

\* The states _make_round_decision may leave, over the random draws.
MakeRoundDecision(E, cfg, session_id, correlation_id, active_personas) ==
    UNION {MakeRoundDecisionWith(E, cfg, session_id, correlation_id,
                                 active_personas, d) : d \in Draws}

\* Mutant: the requesting persona is not compared with the saboteur.
NotSabotagedAnyPersona(decision, persona) == decision.objective = NoneVal

\* decision.saboteur != persona or decision.objective is None
NotSabotaged(decision, persona) ==
    decision.saboteur # persona \/ decision.objective = NoneVal

\* Mutant: one use too many (< for <=).
ExpiredLate(decision) == decision.messages_remaining < 0

\* decision.messages_remaining <= 0
Expired(decision) == decision.messages_remaining <= 0

\* decision.messages_remaining -= 1
UseMessage(decision) ==
    [decision EXCEPT !.messages_remaining = @ - 1]

\* The lookup of the stored decision and the return value.
LookupDecision(E, correlation_id, persona, ran) ==
    IF E.raised # NoneVal
    THEN [state |-> E, ret |-> E.raised, ran |-> ran]
    ELSE LET decision == E.rd[correlation_id]
         IN  IF NotSabotaged(decision, persona) \/ Expired(decision)
             THEN [state |-> E, ret |-> NoneVal, ran |-> ran]
             ELSE [state |-> [E EXCEPT !.rd = DictSet(E.rd, correlation_id,
                                                      UseMessage(decision))],
                   ret |-> ObjectiveById(decision.objective).prompt,
                   ran |-> ran]

\* The outcomes of one call: the state left, the value returned (or the
\* exception raised), and whether _make_round_decision ran.
GetObjectiveOutcomes(E, cfg, session_id, correlation_id, persona, active_personas) ==
    IF ~IsEnabled(cfg)
    THEN {[state |-> E, ret |-> NoneVal, ran |-> FALSE]}
    ELSE IF NeedsDecision(E.rd, correlation_id)
         THEN {LookupDecision(E2, correlation_id, persona, TRUE)
               : E2 \in MakeRoundDecision(E, cfg, session_id, correlation_id,
                                          active_personas)}
         ELSE {LookupDecision(E, correlation_id, persona, FALSE)}

\* lastCall before any call.
NoCall == [correlation_id |-> 0, persona |-> NoneVal]

\* Callers name their rounds in order: a correlation id is first passed
\* only after every smaller one has reached the engine.
IsNextFresh(correlation_id) ==
    \A c \in 1..(correlation_id - 1) :
        \E s \in DOMAIN session_correlation_ids : c \in session_correlation_ids[s]

Saturate(n) == IF n < MaxCalls THEN n + 1 ELSE n

\* The saboteur's calls are counted up to one past duration_messages: the
\* calls after the uses ran out leave the engine as it was and are not
\* told apart.
CountCall(n, cfg) == IF n <= cfg.duration_messages THEN n + 1 ELSE n

IsPrompt(ret) == ret \notin {NoneVal, IndexError}

\* Mutant: the objective handed out is taken off the catalog.
CallPopping(correlation_id, persona, out) ==
    /\ round_decisions' = out.state.rd
    /\ session_history' = out.state.sh
    /\ session_round_counter' = out.state.rc
    /\ session_correlation_ids' = out.state.sc
    /\ catalog' = SelectSeq(catalog, LAMBDA obj : obj.prompt # out.ret)
    /\ result' = out.ret
    /\ lastCall' = [correlation_id |-> correlation_id, persona |-> persona]

\* One call of get_objective_for_persona with outcome out: the engine's
\* maps, the value returned and the record of the call.  No line of the
\* engine writes to OBJECTIVES or to an Objective.
Call(correlation_id, persona, out) ==
    /\ round_decisions' = out.state.rd
    /\ catalog' = catalog
    /\ session_history' = out.state.sh
    /\ session_round_counter' = out.state.rc
    /\ session_correlation_ids' = out.state.sc
    /\ result' = out.ret
    /\ lastCall' = [correlation_id |-> correlation_id, persona |-> persona]

\* The decision the call stored with an objective, if it stored one.
NewAssignments(session_id, correlation_id, out) ==
    IF /\ out.ran
       /\ correlation_id \in DOMAIN out.state.rd
       /\ out.state.rd[correlation_id].objective # NoneVal
    THEN {<<session_id, out.state.rd[correlation_id].saboteur,
            out.state.rd[correlation_id].objective,
            out.state.rc[session_id]>>}
    ELSE {}

GetObjectiveForPersona(session_id, correlation_id, persona, active_personas) ==
    /\ IsNextFresh(correlation_id)
    /\ \E out \in GetObjectiveOutcomes(EngineState, config, session_id,
                                       correlation_id, persona, active_personas) :
        /\ Call(correlation_id, persona, out)
        /\ returned' =
             IF IsPrompt(out.ret)
             THEN [returned EXCEPT ![correlation_id] = @ \cup {<<persona, out.ret>>}]
             ELSE returned
        /\ hits' =
             IF IsPrompt(out.ret)
             THEN [hits EXCEPT ![correlation_id] = Saturate(@)]
             ELSE hits
        /\ sabCalls' =
             IF /\ config.enabled
                /\ correlation_id \in DOMAIN out.state.rd
                /\ out.state.rd[correlation_id].saboteur = persona
             THEN [sabCalls EXCEPT ![correlation_id] = CountCall(@, config)]
             ELSE sabCalls
        /\ assigned' = assigned \cup NewAssignments(session_id, correlation_id, out)
    /\ UNCHANGED <<config, countVars, drawn, serverVars, storeVars>>

\* The same call, recorded for the properties of the round counter.
GetObjectiveCounted(session_id, correlation_id, persona, active_personas) ==
    /\ IsNextFresh(correlation_id)
    /\ \E out \in GetObjectiveOutcomes(EngineState, config, session_id,
                                       correlation_id, persona, active_personas) :
        /\ Call(correlation_id, persona, out)
        /\ execs' =
             IF out.ran
             THEN [execs EXCEPT ![correlation_id] = Saturate(@)]
             ELSE execs
    /\ passed' =
         IF config.enabled
         THEN [passed EXCEPT ![session_id] = @ \cup {correlation_id}]
         ELSE passed
    /\ UNCHANGED <<config, roundVars, drawn, serverVars, storeVars>>

\* No round decision was made by the last call: nothing was drawn.
NoDraw == [value |-> -1, active_personas |-> <<>>]

\* The same call, with the value random.random() returned to it recorded.
\* A call that makes no round decision draws nothing: draw is then 0.
GetObjectiveDrawn(session_id, correlation_id, persona, active_personas, draw) ==
    /\ IsNextFresh(correlation_id)
    /\ LET decides ==
               IsEnabled(config) /\ NeedsDecision(round_decisions, correlation_id)
           outcomes ==
               IF decides
               THEN {LookupDecision(E2, correlation_id, persona, TRUE)
                     : E2 \in MakeRoundDecisionWith(EngineState, config, session_id,
                                                    correlation_id, active_personas,
                                                    draw)}
               ELSE GetObjectiveOutcomes(EngineState, config, session_id,
                                         correlation_id, persona, active_personas)
       IN  /\ decides \/ draw = 0
           /\ \E out \in outcomes : Call(correlation_id, persona, out)
           /\ drawn' = IF decides
                       THEN [value |-> draw, active_personas |-> active_personas]
                       ELSE NoDraw
    /\ UNCHANGED <<config, roundVars, countVars, storeVars, serverVars>>

\* The same call on an engine whose config dict was not checked.
GetObjectiveUnvalidated(session_id, correlation_id, persona, active_personas, draw) ==
    /\ IsNextFresh(correlation_id)
    /\ LET decides ==
               IsEnabled(config) /\ NeedsDecision(round_decisions, correlation_id)
           outcomes ==
               IF decides
               THEN {LookupDecision(E2, correlation_id, persona, TRUE)
                     : E2 \in MakeRoundDecisionUnvalidated(
                                  EngineState, config, session_id, correlation_id,
                                  active_personas, draw)}
               ELSE GetObjectiveOutcomes(EngineState, config, session_id,
                                         correlation_id, persona, active_personas)
       IN  /\ decides \/ draw = 0
           /\ \E out \in outcomes : Call(correlation_id, persona, out)
    /\ UNCHANGED <<config, roundVars, countVars, drawn, storeVars, serverVars>>

\* The owner of the config dict flips its "enabled" entry in place; the
\* engine reads the entry on every call.
SetEnabled(flag) ==
    /\ config.enabled # flag
    /\ config' = [config EXCEPT !.enabled = flag]
    /\ result' = NoneVal
    /\ lastCall' = NoCall
    /\ UNCHANGED <<engineVars, roundVars, countVars, drawn, serverVars, storeVars>>

(***************************************************************************)
(* SessionStore.                                                           *)
(***************************************************************************)
UserEntry(content) == [role |-> "user", content |-> content]

AssistantEntry(content, persona) ==
    [role |-> "assistant", content |-> content,
     metadata |-> [persona |-> persona]]

\* Mutant: the role is compared with the wrong constant.
IsDuplicateWrongRole(history, content) ==
    /\ Len(history) > 0
    /\ history[Len(history)].role = "assistant"
    /\ history[Len(history)].content = content

\* Mutant: the content is looked for among all the user entries.
IsDuplicateAnywhere(history, content) ==
    \E i \in 1..Len(history) :
        history[i].role = "user" /\ history[i].content = content

\* Mutant: the content is not compared.
IsDuplicateAnyContent(history, content) ==
    /\ Len(history) > 0
    /\ history[Len(history)].role = "user"

\* history and history[-1]["role"] == "user"
\*         and history[-1]["content"] == content
IsDuplicate(history, content) ==
    /\ Len(history) > 0
    /\ history[Len(history)].role = "user"
    /\ history[Len(history)].content = content

\* Mutant: the message is compared with the last entry of every session.
append_user_shared(store, session_id, content) ==
    LET touched == Touch(store, session_id, <<>>)
        history == touched[session_id]
    IN  IF \E s \in DOMAIN touched : IsDuplicate(touched[s], content)
        THEN touched
        ELSE DictSet(touched, session_id, Append(history, UserEntry(content)))

\* SessionStore.append_user, as the store it leaves.
append_user(store, session_id, content) ==
    LET touched == Touch(store, session_id, <<>>)
        history == touched[session_id]
    IN  IF IsDuplicate(history, content)
        THEN touched
        ELSE DictSet(touched, session_id, Append(history, UserEntry(content)))

\* Mutant: a response equal to the last entry is skipped, as append_user
\* skips a repeated user message.
append_assistant_dedup(store, session_id, content, persona) ==
    LET touched == Touch(store, session_id, <<>>)
        history == touched[session_id]
    IN  IF /\ Len(history) > 0
           /\ history[Len(history)] = AssistantEntry(content, persona)
        THEN touched
        ELSE DictSet(touched, session_id,
                     Append(history, AssistantEntry(content, persona)))

\* Mutant: the response is put in front of the history.
append_assistant_front(store, session_id, content, persona) ==
    LET touched == Touch(store, session_id, <<>>)
    IN  DictSet(touched, session_id,
                <<AssistantEntry(content, persona)>> \o touched[session_id])

\* SessionStore.append_assistant, as the store it leaves.
append_assistant(store, session_id, content, persona) ==
    LET touched == Touch(store, session_id, <<>>)
    IN  DictSet(touched, session_id,
                Append(touched[session_id], AssistantEntry(content, persona)))

(***************************************************************************)
(* Text.  A str is a TLA+ string; where the code works on its characters   *)
(* it is the sequence of them.                                             *)
(***************************************************************************)
LowerCase ==
    <<"a", "b", "c", "d", "e", "f", "g", "h", "i", "j", "k", "l", "m",
      "n", "o", "p", "q", "r", "s", "t", "u", "v", "w", "x", "y", "z">>

UpperCase ==
    <<"A", "B", "C", "D", "E", "F", "G", "H", "I", "J", "K", "L", "M",
      "N", "O", "P", "Q", "R", "S", "T", "U", "V", "W", "X", "Y", "Z">>

IsLower(ch) == \E i \in 1..Len(LowerCase) : LowerCase[i] = ch

IsUpper(ch) == \E i \in 1..Len(UpperCase) : UpperCase[i] = ch

IsCased(ch) == IsLower(ch) \/ IsUpper(ch)

Upper(ch) ==
    IF IsLower(ch)
    THEN UpperCase[CHOOSE i \in 1..Len(LowerCase) : LowerCase[i] = ch]
    ELSE ch

Lower(ch) ==
    IF IsUpper(ch)
    THEN LowerCase[CHOOSE i \in 1..Len(UpperCase) : UpperCase[i] = ch]
    ELSE ch

\* The characters of the persona keys the model passes.
Chars(persona) ==
    CASE persona = "" -> <<>>
      [] persona = "gandalf" -> <<"g", "a", "n", "d", "a", "l", "f">>
      [] persona = "your_nan" -> <<"y", "o", "u", "r", "_", "n", "a", "n">>
      [] persona = "angry_chef" ->
            <<"a", "n", "g", "r", "y", "_", "c", "h", "e", "f">>
      [] persona = "film_noir_detective" ->
            <<"f", "i", "l", "m", "_", "n", "o", "i", "r", "_",
              "d", "e", "t", "e", "c", "t", "i", "v", "e">>

\* "".join(chars)
RECURSIVE Join(_)
Join(chars) ==
    IF Len(chars) = 0 THEN "" ELSE Head(chars) \o Join(Tail(chars))

\* str.replace(old, new) for single characters.
Replace(chars, old, new) ==
    [i \in 1..Len(chars) |-> IF chars[i] = old THEN new ELSE chars[i]]

\* str.title(): a cased character is upper-cased when the character before
\* it is not cased, and lower-cased when it is.
RECURSIVE TitleFrom(_, _)
TitleFrom(chars, previous_is_cased) ==
    IF Len(chars) = 0
    THEN <<>>
    ELSE LET ch == Head(chars)
         IN  <<IF ~IsCased(ch) THEN ch
                ELSE IF previous_is_cased THEN Lower(ch) ELSE Upper(ch)>>
             \o TitleFrom(Tail(chars), IsCased(ch))

\* Mutant: str.capitalize() in place of str.title().
Capitalize(chars) ==
    [i \in 1..Len(chars) |-> IF i = 1 THEN Upper(chars[i]) ELSE Lower(chars[i])]

Title(chars) == TitleFrom(chars, FALSE)

\* turn["metadata"]["persona"].replace("_", " ").title()
DisplayName(persona) == Join(Title(Replace(Chars(persona), "_", " ")))

(***************************************************************************)
(* SessionStore, reads.                                                    *)
(***************************************************************************)
\* Mutant: the read indexes the defaultdict, which inserts a missing key.
SessionsIndex(store, session_id) ==
    [store |-> Touch(store, session_id, <<>>),
     value |-> DictGet(store, session_id, <<>>)]

\* self._sessions.get(session_id, []): the store it leaves and the list it
\* hands back.
SessionsGet(store, session_id) ==
    [store |-> store, value |-> DictGet(store, session_id, <<>>)]

\* turn.get("metadata", {}).get("persona") is truthy.
HasPersona(turn) ==
    /\ "metadata" \in DOMAIN turn
    /\ "persona" \in DOMAIN turn.metadata
    /\ turn.metadata.persona # ""

\* Mutant: the stored turn is handed on as it is.
RenderTurnRaw(turn) == turn

\* One pass of the loop of get_messages.
RenderTurn(turn) ==
    [role |-> turn.role,
     content |->
        IF turn.role = "assistant" /\ HasPersona(turn)
        THEN "(" \o DisplayName(turn.metadata.persona) \o " said) " \o turn.content
        ELSE turn.content]

\* Mutant: only the user turns are handed on.
get_messages_users(store, session_id) ==
    LET history == SessionsGet(store, session_id).value
    IN  SelectSeq([i \in 1..Len(history) |-> RenderTurn(history[i])],
                  LAMBDA m : m.role = "user")

\* SessionStore.get_messages
get_messages(store, session_id) ==
    LET history == SessionsGet(store, session_id).value
    IN  [i \in 1..Len(history) |-> RenderTurn(history[i])]

\* SessionStore.get_full_history
get_full_history(store, session_id) == SessionsGet(store, session_id).value

\* _to_sdk_messages: every content string becomes [{"text": content}].
to_sdk_messages(raw_messages) ==
    [i \in 1..Len(raw_messages) |->
        [role |-> raw_messages[i].role,
         content |-> <<[text |-> raw_messages[i].content]>>]]

\* _build_messages: the store it leaves and the messages array it returns.
build_messages(store, session_id, message) ==
    IF session_id # ""
    THEN LET appended == append_user(store, session_id, message)
         IN  [store |-> appended,
              messages |-> to_sdk_messages(get_messages(appended, session_id))]
    ELSE [store |-> store, messages |-> to_sdk_messages(<<UserEntry(message)>>)]

\* Entries held over all sessions.
RECURSIVE StoredEntries(_, _)
StoredEntries(store, ids) ==
    IF ids = {} THEN 0
    ELSE LET s == CHOOSE x \in ids : TRUE
         IN  Len(store[s]) + StoredEntries(store, ids \ {s})

HasRoom(n) == StoredEntries(sessions, DOMAIN sessions) + n <= MaxHist

\* No read has been made since the last append.
NoRead == [fn |-> NoneVal, session_id |-> NoneVal, value |-> <<>>]

\* No round has been started.
NoRound == [session_id |-> NoneVal, message |-> NoneVal, personas |-> <<>>,
            responses |-> <<>>]

\* Requests of the round are still to be served.
InRound == Len(round.responses) < Len(round.personas)

\* A caller appends a user message outside a round.
AppendUser(session_id, content) ==
    /\ ~InRound
    /\ HasRoom(1)
    /\ sessions' = append_user(sessions, session_id, content)
    /\ round' = NoRound
    /\ before' = <<>>
    /\ messages' = <<>>
    /\ UNCHANGED <<config, engineVars, result, lastCall, roundVars, countVars,
                   drawn, serverVars, apiVars>>

\* A caller appends a response outside a round.
AppendAssistant(session_id, content, persona) ==
    /\ ~InRound
    /\ HasRoom(1)
    /\ sessions' = append_assistant(sessions, session_id, content, persona)
    /\ round' = NoRound
    /\ before' = <<>>
    /\ messages' = <<>>
    /\ UNCHANGED <<config, engineVars, result, lastCall, roundVars, countVars,
                   drawn, serverVars, apiVars>>

\* The caller starts a round: the same user message is to be sent once per
\* persona, one request after the other.
StartRound(session_id, message, personas) ==
    /\ ~InRound
    /\ HasRoom(2 * Len(personas))
    /\ round' = [session_id |-> session_id, message |-> message,
                 personas |-> personas, responses |-> <<>>]
    /\ before' = DictGet(sessions, session_id, <<>>)
    /\ messages' = <<>>
    /\ UNCHANGED sessions
    /\ UNCHANGED <<config, engineVars, result, lastCall, roundVars, countVars,
                   drawn, serverVars, apiVars>>

\* /invoke serves the next request of the round: _build_messages appends
\* the user message, the model answers, the answer is appended.  The
\* request carries no correlation id, so the engine is not consulted.
Invoke(response_text) ==
    /\ InRound
    /\ LET persona == round.personas[Len(round.responses) + 1]
           built == build_messages(sessions, round.session_id, round.message)
       IN  /\ messages' = built.messages
           /\ sessions' = append_assistant(built.store, round.session_id,
                                           response_text, persona)
    /\ round' = [round EXCEPT !.responses = Append(@, response_text)]
    /\ UNCHANGED before
    /\ UNCHANGED <<config, engineVars, result, lastCall, roundVars, countVars,
                   drawn, serverVars, apiVars>>

\* The record of an append call.
CallRecord(op, session_id, content, persona) ==
    [op |-> op, session_id |-> session_id, content |-> content,
     persona |-> persona]

\* append_user called on the store, the call recorded.
CallAppendUser(session_id, content) ==
    /\ Len(calls) < MaxLog
    /\ sessions' = append_user(sessions, session_id, content)
    /\ calls' = Append(calls, CallRecord("append_user", session_id, content, NoneVal))
    /\ snaps' = Append(snaps, sessions)
    /\ read' = NoRead
    /\ UNCHANGED <<round, before, messages>>
    /\ UNCHANGED <<config, engineVars, result, lastCall, roundVars, countVars,
                   drawn, serverVars>>

\* append_assistant called on the store, the call recorded.
CallAppendAssistant(session_id, content, persona) ==
    /\ Len(calls) < MaxLog
    /\ sessions' = append_assistant(sessions, session_id, content, persona)
    /\ calls' = Append(calls, CallRecord("append_assistant", session_id, content,
                                         persona))
    /\ snaps' = Append(snaps, sessions)
    /\ read' = NoRead
    /\ UNCHANGED <<round, before, messages>>
    /\ UNCHANGED <<config, engineVars, result, lastCall, roundVars, countVars,
                   drawn, serverVars>>

\* get_messages called on the store.
GetMessages(session_id) ==
    /\ sessions' = SessionsGet(sessions, session_id).store
    /\ read' = [fn |-> "get_messages", session_id |-> session_id,
                value |-> get_messages(sessions, session_id)]
    /\ UNCHANGED <<round, before, messages, calls, snaps>>
    /\ UNCHANGED <<config, engineVars, result, lastCall, roundVars, countVars,
                   drawn, serverVars>>

\* get_full_history called on the store.
GetFullHistory(session_id) ==
    /\ sessions' = SessionsGet(sessions, session_id).store
    /\ read' = [fn |-> "get_full_history", session_id |-> session_id,
                value |-> get_full_history(sessions, session_id)]
    /\ UNCHANGED <<round, before, messages, calls, snaps>>
    /\ UNCHANGED <<config, engineVars, result, lastCall, roundVars, countVars,
                   drawn, serverVars>>

(***************************************************************************)
(* The HTTP endpoints /invoke and /stream.                                 *)
(***************************************************************************)
\* get_personas(): the keys of PERSONAS.
get_personas ==
    {"angry_chef", "medieval_knight", "gandalf", "your_nan", "terminator",
     "film_noir_detective", "kindergarten_teacher", "roman_emperor",
     "infomercial_host", "ships_cat"}

\* Mutant: every persona passes.
KnownPersonaAny(persona) == TRUE

\* persona in get_personas()
KnownPersona(persona) == persona \in get_personas

\* req.context.metadata.get("correlation_id", "") of a request without one.
NoCorrelation == 0

\* The correlation ids of the requests: absent, or the first round's.
RequestCorrelationIds == {NoCorrelation, 1}

\* The /stream requests, numbered in no particular order.
StreamIds == 1..MaxReq

\* The events agent.stream_async yields: a dict (or an object with to_dict)
\* with a "type" and possibly a "data" key, or a plain string.
DictEvent(type, content) ==
    [form |-> "dict", type |-> type, content |-> content, data |-> NoneVal]

DataEvent(chunk) ==
    [form |-> "dict", type |-> "", content |-> "", data |-> chunk]

StrEvent(chunk) ==
    [form |-> "str", type |-> "", content |-> chunk, data |-> NoneVal]

SdkEvents ==
    {DictEvent("text", "a"), DictEvent("tool_use", ""), DictEvent("complete", ""),
     DictEvent("error", ""), DictEvent("ping", ""), DataEvent("a"), StrEvent("a")}

\* An event of the SSE contract; the text of a complete event is held in
\* content as well.
SseEvent(type, content) == [type |-> type, content |-> content]

\* map_sdk_event: the canonical event, if any (a set of at most one).
map_sdk_event(sdk_event) ==
    IF /\ sdk_event.form = "dict"
       /\ sdk_event.type \in {"text", "tool_use", "tool_result", "thinking",
                              "complete", "error"}
    THEN {SseEvent(sdk_event.type, sdk_event.content)}
    ELSE {}

\* The events one pass of the loop of event_generator yields.
Yielded(sdk_event) ==
    IF map_sdk_event(sdk_event) # {}
    THEN <<CHOOSE canonical \in map_sdk_event(sdk_event) : TRUE>>
    ELSE IF sdk_event.form = "str"
         THEN <<SseEvent("text", sdk_event.content)>>
         ELSE IF sdk_event.data # NoneVal
              THEN <<SseEvent("text", sdk_event.data)>>
              ELSE <<>>

\* What the pass adds to full_text.
Chunk(sdk_event) ==
    IF map_sdk_event(sdk_event) # {}
    THEN IF sdk_event.type = "text" THEN sdk_event.content ELSE ""
    ELSE IF sdk_event.form = "str"
         THEN sdk_event.content
         ELSE IF sdk_event.data # NoneVal THEN sdk_event.data ELSE ""

\* canonical.get("type") in ("complete", "error")
IsTerminal(sdk_event) ==
    /\ map_sdk_event(sdk_event) # {}
    /\ sdk_event.type \in {"complete", "error"}

\* A /stream request not yet made.
IdleStream ==
    [pc |-> "idle", session_id |-> NoneVal, persona |-> NoneVal,
     objective_prompt |-> NoneVal, messages |-> <<>>, emitted |-> <<>>,
     consumed |-> 0, full_text |-> "", got_terminal |-> FALSE]

\* event_generator as the response starts: full_text = "", got_terminal =
\* False, over the messages built by the handler and the agent created
\* with objective_prompt.
OpenStream(session_id, persona, objective_prompt, msgs) ==
    [pc |-> "streaming", session_id |-> session_id, persona |-> persona,
     objective_prompt |-> objective_prompt, messages |-> msgs, emitted |-> <<>>,
     consumed |-> 0, full_text |-> "", got_terminal |-> FALSE]

\* One pass of the async for loop.
LoopPass(st, sdk_event) ==
    [st EXCEPT !.emitted = @ \o Yielded(sdk_event),
               !.consumed = @ + 1,
               !.full_text = @ \o Chunk(sdk_event),
               !.got_terminal = @ \/ IsTerminal(sdk_event)]

\* After the loop: the complete event, if no terminal event was forwarded.
AfterLoop(st) ==
    [st EXCEPT !.pc = "closed",
               !.emitted = IF st.got_terminal THEN @
                           ELSE Append(@, SseEvent("complete", st.full_text))]

\* except Exception: the error event, if no terminal event was forwarded.
OnException(st) ==
    [st EXCEPT !.pc = "closed",
               !.emitted = IF st.got_terminal THEN @
                           ELSE Append(@, SseEvent("error", "INTERNAL"))]

\* No request has been answered.
NoResponse ==
    [endpoint |-> NoneVal, status |-> 0, persona |-> NoneVal,
     session_id |-> NoneVal, correlation_id |-> NoCorrelation,
     objective_prompt |-> NoneVal, detail |-> NoneVal]

\* The request last handled: its endpoint, persona, session id and
\* correlation id, the status it was answered with (200 for a stream: the
\* response was started), the exception behind a 500, and the
\* objective_prompt create_agent was called with.
Response(endpoint, req, adm, detail) ==
    [endpoint |-> endpoint,
     status |-> IF detail = NoneVal THEN 200
                ELSE IF detail = "HTTPException" THEN 400 ELSE 500,
     persona |-> req.persona, session_id |-> req.session_id,
     correlation_id |-> req.correlation_id,
     objective_prompt |-> IF adm.status = 400 \/ adm.out.ret = IndexError
                          THEN NoneVal ELSE adm.out.ret,
     detail |-> detail]

\* The fields of a request the record of its answer keeps.
Request(session_id, correlation_id, persona) ==
    [session_id |-> session_id, correlation_id |-> correlation_id,
     persona |-> persona]

\* Mutant: the correlation id is not looked at.
ConsultsEngineAnyCorrelation(session_id, correlation_id) == session_id # ""

\* The engine is consulted: if req.session_id and correlation_id.
ConsultsEngine(session_id, correlation_id) ==
    session_id # "" /\ correlation_id # NoCorrelation

\* The part /invoke and /stream share, up to create_agent: the status it
\* leaves the request with (200: it goes on to _build_messages), the
\* exception behind another status, and the outcome of the engine call, if
\* one was made.  An exception of the engine and a RuntimeError of
\* create_agent both answer 500.
Admissions(session_id, correlation_id, persona, active_personas, agent_ok) ==
    IF ~KnownPersona(persona)
    THEN {[status |-> 400, detail |-> "HTTPException", consulted |-> FALSE,
           out |-> [state |-> EngineState, ret |-> NoneVal, ran |-> FALSE]]}
    ELSE IF ConsultsEngine(session_id, correlation_id)
         THEN {[status |-> IF out.ret = IndexError \/ ~agent_ok THEN 500 ELSE 200,
                detail |-> IF out.ret = IndexError THEN IndexError
                           ELSE IF ~agent_ok THEN "RuntimeError" ELSE NoneVal,
                consulted |-> TRUE, out |-> out]
               : out \in GetObjectiveOutcomes(EngineState, config, session_id,
                                              correlation_id, persona,
                                              active_personas)}
         ELSE {[status |-> IF agent_ok THEN 200 ELSE 500,
                detail |-> IF agent_ok THEN NoneVal ELSE "RuntimeError",
                consulted |-> FALSE,
                out |-> [state |-> EngineState, ret |-> NoneVal, ran |-> FALSE]]}

\* The engine's part of a request.
Admit(correlation_id, persona, adm) ==
    IF adm.consulted
    THEN Call(correlation_id, persona, adm.out)
    ELSE UNCHANGED <<engineVars, result, lastCall>>

\* The streams whose response is still being sent.
Streaming == {r \in StreamIds : streams[r].pc = "streaming"}

\* Mutant: the answer is saved although the model call raised.
SaveResponseAlways(store, session_id, response_text, persona, model_ok) ==
    IF session_id # ""
    THEN append_assistant(store, session_id, response_text, persona)
    ELSE store

\* The end of /invoke: agent(messages) returns and the response is saved
\* under the session id, if there is one; an exception of agent(messages)
\* leaves the handler before that.
SaveResponse(store, session_id, response_text, persona, model_ok) ==
    IF model_ok /\ session_id # ""
    THEN append_assistant(store, session_id, response_text, persona)
    ELSE store

\* POST /invoke.  model_ok: agent(messages) returns response_text
\* (otherwise it raises, and the request is answered 500).
ServerInvoke(session_id, correlation_id, persona, active_personas, message, agent_ok, model_ok, response_text) ==
    /\ HasRoom(2 * (1 + Cardinality(Streaming)))
    /\ \E adm \in Admissions(session_id, correlation_id, persona, active_personas,
                             agent_ok) :
        /\ Admit(correlation_id, persona, adm)
        /\ http' = Response("/invoke",
                            Request(session_id, correlation_id, persona), adm,
                            IF adm.status = 200 /\ ~model_ok THEN "ModelError"
                            ELSE adm.detail)
        /\ IF adm.status = 200
           THEN LET built == build_messages(sessions, session_id, message)
                IN  /\ messages' = built.messages
                    /\ sessions' = SaveResponse(built.store, session_id,
                                                response_text, persona, model_ok)
           ELSE UNCHANGED <<sessions, messages>>
    /\ UNCHANGED <<streams, log>>
    /\ UNCHANGED <<config, roundVars, countVars, drawn, round, before, apiVars>>

\* POST /stream, up to the StreamingResponse: the handler builds the
\* messages and the generator starts over them.
ServerStream(r, session_id, correlation_id, persona, active_personas, message, agent_ok) ==
    /\ streams[r].pc = "idle"
    /\ HasRoom(2 * (1 + Cardinality(Streaming)))
    /\ \E adm \in Admissions(session_id, correlation_id, persona, active_personas,
                             agent_ok) :
        /\ Admit(correlation_id, persona, adm)
        /\ http' = Response("/stream",
                            Request(session_id, correlation_id, persona), adm,
                            adm.detail)
        /\ IF adm.status = 200
           THEN LET built == build_messages(sessions, session_id, message)
                IN  /\ sessions' = built.store
                    /\ streams' = [streams EXCEPT
                                     ![r] = OpenStream(session_id, persona,
                                                       adm.out.ret,
                                                       built.messages)]
                    /\ log' = Append(log, [op |-> "accept", req |-> r])
           ELSE UNCHANGED <<sessions, streams, log>>
    /\ UNCHANGED messages
    /\ UNCHANGED <<config, roundVars, countVars, drawn, round, before, apiVars>>

\* The SDK yields an event to the generator of request r.
StreamEvent(r, sdk_event) ==
    /\ streams[r].pc = "streaming"
    /\ streams[r].consumed < MaxEvents
    /\ streams' = [streams EXCEPT ![r] = LoopPass(@, sdk_event)]
    /\ UNCHANGED <<http, log>>
    /\ UNCHANGED <<config, engineVars, result, lastCall, roundVars, countVars,
                   drawn, storeVars>>

\* The SDK's iterator is exhausted: the response is saved and the stream
\* closed.
StreamEnd(r) ==
    /\ streams[r].pc = "streaming"
    /\ sessions' = IF streams[r].session_id # ""
                   THEN append_assistant(sessions, streams[r].session_id,
                                         streams[r].full_text, streams[r].persona)
                   ELSE sessions
    /\ streams' = [streams EXCEPT ![r] = AfterLoop(@)]
    /\ log' = Append(log, [op |-> "end", req |-> r])
    /\ UNCHANGED <<http, round, before, messages, apiVars>>
    /\ UNCHANGED <<config, engineVars, result, lastCall, roundVars, countVars,
                   drawn>>

\* The SDK's iterator raises: nothing is saved and the stream is closed.
StreamRaise(r) ==
    /\ streams[r].pc = "streaming"
    /\ streams' = [streams EXCEPT ![r] = OnException(@)]
    /\ log' = Append(log, [op |-> "raise", req |-> r])
    /\ UNCHANGED http
    /\ UNCHANGED <<config, engineVars, result, lastCall, roundVars, countVars,
                   drawn, storeVars>>

InitServer ==
    /\ streams = [r \in StreamIds |-> IdleStream]
    /\ http = NoResponse
    /\ log = <<>>

InitEngine ==
    /\ catalog = OBJECTIVES
    /\ round_decisions = EmptyDict
    /\ session_history = EmptyDict
    /\ session_round_counter = EmptyDict
    /\ session_correlation_ids = EmptyDict
    /\ result = NoneVal
    /\ lastCall = NoCall
    /\ returned = [c \in CorrelationIds |-> {}]
    /\ hits = [c \in CorrelationIds |-> 0]
    /\ sabCalls = [c \in CorrelationIds |-> 0]
    /\ assigned = {}
    /\ passed = [s \in SessionIds |-> {}]
    /\ execs = [c \in CorrelationIds |-> 0]
    /\ drawn = NoDraw

InitStore ==
    /\ sessions = EmptyDict
    /\ round = NoRound
    /\ before = <<>>
    /\ messages = <<>>
    /\ calls = <<>>
    /\ snaps = <<>>
    /\ read = NoRead
    /\ InitServer

Init ==
    /\ config \in Configs
    /\ InitEngine
    /\ InitStore

\* The engine as constructed with no config argument.
InitDefault ==
    /\ config = SABOTAGE_CONFIG
    /\ InitEngine
    /\ InitStore

(***************************************************************************)
(* Spec: the engine under any sequence of calls for the rounds of one      *)
(* session.                                                                *)
(***************************************************************************)
Next ==
    \E correlation_id \in CorrelationIds, persona \in PersonaArgs,
       active_personas \in ActiveLists :
        GetObjectiveForPersona("s1", correlation_id, persona, active_personas)

Spec == Init /\ [][Next]_vars

(***************************************************************************)
(* SpecSessions: the same calls with the session id drawn from two         *)
(* sessions, a correlation id passed under both included.                  *)
(***************************************************************************)
NextSessions ==
    \E session_id \in SessionIds, correlation_id \in CorrelationIds,
       persona \in PersonaArgs, active_personas \in ActiveLists :
        GetObjectiveForPersona(session_id, correlation_id, persona, active_personas)

SpecSessions == Init /\ [][NextSessions]_vars

(***************************************************************************)
(* SpecScenario: the calls of the three personas of the scenario, in any   *)
(* order and number, for its two rounds.                                   *)
(***************************************************************************)
NextScenario ==
    \E correlation_id \in ScenarioIds, i \in 1..Len(ScenarioPersonas) :
        GetObjectiveForPersona("s1", correlation_id, ScenarioPersonas[i],
                               ScenarioPersonas)

SpecScenario == InitDefault /\ [][NextScenario]_vars

(***************************************************************************)
(* SpecDraw: the calls of one session with the draw of each round decision *)
(* recorded, from configurations at the ends of the chance range.          *)
(***************************************************************************)
InitDraw ==
    /\ config \in DrawConfigs
    /\ InitEngine
    /\ InitStore

NextDraw ==
    \E correlation_id \in CorrelationIds, persona \in PersonaArgs,
       active_personas \in DrawLists, draw \in Draws :
        GetObjectiveDrawn("s1", correlation_id, persona, active_personas, draw)

SpecDraw == InitDraw /\ [][NextDraw]_vars

(***************************************************************************)
(* SpecConfig: the calls of one session on an engine constructed from a    *)
(* config dict that may lack a key.                                        *)
(***************************************************************************)
InitConfig ==
    /\ config \in StartupConfigs
    /\ InitEngine
    /\ InitStore

NextConfig ==
    \E correlation_id \in CorrelationIds, persona \in PersonaArgs,
       active_personas \in ActiveLists, draw \in Draws :
        GetObjectiveUnvalidated("s1", correlation_id, persona, active_personas, draw)

SpecConfig == InitConfig /\ [][NextConfig]_vars

(***************************************************************************)
(* SpecCount: the calls of two sessions from the default configuration,    *)
(* with the record the round-counter properties need.                      *)
(***************************************************************************)
NextCount ==
    \E session_id \in SessionIds, correlation_id \in CorrelationIds,
       persona \in PersonaArgs, active_personas \in ActiveLists :
        GetObjectiveCounted(session_id, correlation_id, persona, active_personas)

SpecCount == InitDefault /\ [][NextCount]_vars

(***************************************************************************)
(* SpecSwitch: the calls of gandalf for the rounds of one session,         *)
(* interleaved with flips of the master switch, from the default           *)
(* configuration.                                                          *)
(***************************************************************************)
NextSwitch ==
    \/ \E correlation_id \in CorrelationIds, active_personas \in ActiveLists :
          GetObjectiveForPersona("s1", correlation_id, "gandalf", active_personas)
    \/ \E flag \in BOOLEAN : SetEnabled(flag)

SpecSwitch == InitDefault /\ [][NextSwitch]_vars

(***************************************************************************)
(* Properties of the engine.                                               *)
(***************************************************************************)
Min(a, b) == IF a < b THEN a ELSE b

\* The prompt a stored decision hands out.
PromptOf(decision) == ObjectiveById(decision.objective).prompt

\* C1 (round stability): every prompt returned for a correlation id is the
\* prompt of the one objective stored for it and went to the one stored
\* saboteur, and the stored saboteur and objective never change once stored.
RoundStability ==
    [][\A c \in CorrelationIds :
        /\ Cardinality(returned'[c]) <= 1
        /\ \A pr \in returned'[c] :
              /\ c \in DOMAIN round_decisions'
              /\ round_decisions'[c].objective # NoneVal
              /\ pr = <<round_decisions'[c].saboteur, PromptOf(round_decisions'[c])>>
        /\ c \in DOMAIN round_decisions =>
              /\ c \in DOMAIN round_decisions'
              /\ round_decisions'[c].saboteur = round_decisions[c].saboteur
              /\ round_decisions'[c].objective = round_decisions[c].objective]_vars

\* C1 witness: a correlation id for which two calls returned a prompt.
RoundStabilityWitness ==
    \E c \in CorrelationIds : hits[c] = 2 /\ Cardinality(returned[c]) = 1

\* C2 (one saboteur per round): at most one persona ever receives a prompt
\* for a correlation id, and a call by a persona other than the stored
\* saboteur returns None, whatever max_active_per_round is.
OneSaboteurPerRound ==
    \A c \in CorrelationIds :
        /\ Cardinality({pr[1] : pr \in returned[c]}) <= 1
        /\ (/\ lastCall.correlation_id = c
            /\ c \in DOMAIN round_decisions
            /\ lastCall.persona # round_decisions[c].saboteur)
           => result = NoneVal

\* C2 witness: with max_active_per_round = 2, the saboteur got its prompt
\* and then another active persona called for the same round.
OneSaboteurPerRoundWitness ==
    /\ config.max_active_per_round = 2
    /\ \E c \in DOMAIN round_decisions :
        /\ returned[c] # {}
        /\ round_decisions[c].saboteur = "nobody"
        /\ lastCall = [correlation_id |-> c, persona |-> "gandalf"]

\* C3 (duration bound): in an activated round the saboteur's calls return
\* the prompt on exactly the first duration_messages of them.
DurationBound ==
    \A c \in DOMAIN round_decisions :
        round_decisions[c].objective # NoneVal =>
            /\ hits[c] = Min(sabCalls[c], config.duration_messages)
            /\ \A pr \in returned[c] : pr[1] = round_decisions[c].saboteur

\* C3 witness: the saboteur called more than duration_messages times.
DurationBoundWitness ==
    \E c \in DOMAIN round_decisions :
        /\ round_decisions[c].objective # NoneVal
        /\ sabCalls[c] > config.duration_messages
        /\ hits[c] = config.duration_messages
        /\ lastCall = [correlation_id |-> c, persona |-> round_decisions[c].saboteur]
        /\ result = NoneVal

\* C4 (cooldown): an objective assigned to a persona in round R of a
\* session is not assigned to that persona again in a later round R2 of the
\* session with R2 - R <= cooldown_rounds.
CooldownEnforced ==
    \A a1 \in assigned, a2 \in assigned :
        (/\ a1[1] = a2[1]
         /\ a1[2] = a2[2]
         /\ a1[3] = a2[3]
         /\ a2[4] > a1[4])
        => a2[4] - a1[4] > config.cooldown_rounds

\* C4 witness: with a cooldown of at least one round, a persona was the
\* saboteur in two rounds of one session.
CooldownEnforcedWitness ==
    /\ config.cooldown_rounds >= 1
    /\ \E a1 \in assigned, a2 \in assigned :
        a1[1] = a2[1] /\ a1[2] = a2[2] /\ a2[4] > a1[4]

\* C5 (compatibility): a stored objective lists the stored saboteur or
\* lists nobody, and an objective that lists nobody is a candidate for
\* every persona.
CompatibilityEnforced ==
    /\ \A c \in DOMAIN round_decisions :
          round_decisions[c].objective # NoneVal =>
              LET obj == ObjectiveById(round_decisions[c].objective)
              IN  \/ Len(obj.compatible_personas) = 0
                  \/ InList(round_decisions[c].saboteur, obj.compatible_personas)
    /\ \A persona \in PersonaArgs, i \in 1..Len(OBJECTIVES) :
          Len(OBJECTIVES[i].compatible_personas) = 0 =>
              InList(OBJECTIVES[i], GetCompatibleObjectives(persona))

\* C5 witness: a persona no objective lists holds the universal objective,
\* and a listed persona holds its signature objective.
CompatibilityEnforcedWitness ==
    /\ \E c \in DOMAIN round_decisions :
          /\ round_decisions[c].saboteur = "nobody"
          /\ round_decisions[c].objective = "identity_crisis"
    /\ \E c \in DOMAIN round_decisions :
          /\ round_decisions[c].saboteur = "gandalf"
          /\ round_decisions[c].objective = "the_ring"

\* C6 (disabled switch): while enabled is false a call returns None and
\* leaves the four maps of the engine as they were.
DisabledSwitch ==
    [][(~config.enabled /\ config' = config) =>
          /\ result' = NoneVal
          /\ round_decisions' = round_decisions
          /\ session_history' = session_history
          /\ session_round_counter' = session_round_counter
          /\ session_correlation_ids' = session_correlation_ids]_vars

\* C6 witness: the switch is off and the saboteur of a round with uses left
\* has called.
DisabledSwitchWitness ==
    /\ ~config.enabled
    /\ \E c \in DOMAIN round_decisions :
          /\ round_decisions[c].objective # NoneVal
          /\ round_decisions[c].messages_remaining > 0
          /\ lastCall = [correlation_id |-> c, persona |-> round_decisions[c].saboteur]

\* C7 (round counter): the round counter of a session is the number of
\* distinct correlation ids passed in calls for that session.
RoundCounterCountsPassed ==
    \A s \in SessionIds :
        DictGet(session_round_counter, s, 0) = Cardinality(passed[s])

\* C8 (decision lifecycle): _make_round_decision runs once per correlation
\* id, and a stored decision is never removed or changed except by one
\* decrement of messages_remaining.
DecisionLifecycle ==
    [][\A c \in CorrelationIds :
        /\ execs'[c] <= 1
        /\ c \in DOMAIN round_decisions =>
              /\ c \in DOMAIN round_decisions'
              /\ \/ round_decisions'[c] = round_decisions[c]
                 \/ round_decisions'[c] = UseMessage(round_decisions[c])]_vars

\* C9 (no failure path): a call never raises, and after it a decision is
\* stored for its correlation id.
NoFailurePath ==
    /\ result # IndexError
    /\ lastCall # NoCall => lastCall.correlation_id \in DOMAIN round_decisions

(***************************************************************************)
(* SpecStore: the session store under direct calls and under rounds        *)
(* delivered one request at a time.                                        *)
(***************************************************************************)
NextStore ==
    \/ \E session_id \in SessionIds, content \in Texts :
         AppendUser(session_id, content)
    \/ \E session_id \in SessionIds, content \in Responses,
          persona \in {"gandalf", "film_noir_detective"} :
         AppendAssistant(session_id, content, persona)
    \/ \E session_id \in SessionIds, message \in Texts, personas \in RoundPersonas :
         StartRound(session_id, message, personas)
    \/ \E response_text \in Responses : Invoke(response_text)

SpecStore == InitDefault /\ [][NextStore]_vars

(***************************************************************************)
(* SpecApi: the methods of the session store called directly, in any       *)
(* order.                                                                  *)
(***************************************************************************)
NextApi ==
    \/ \E session_id \in SessionIds, content \in Texts :
         CallAppendUser(session_id, content)
    \/ \E session_id \in SessionIds, content \in Responses,
          persona \in PersonaTags :
         CallAppendAssistant(session_id, content, persona)
    \/ \E session_id \in SessionIds : GetMessages(session_id)
    \/ \E session_id \in SessionIds : GetFullHistory(session_id)

SpecApi == InitDefault /\ [][NextApi]_vars

(***************************************************************************)
(* SpecStream: one /stream request of session s1 and every sequence of at  *)
(* most MaxEvents SDK events, ended or cut short by an exception.          *)
(***************************************************************************)
NextStream ==
    \/ ServerStream(1, "s1", NoCorrelation, "gandalf", <<"gandalf">>, "X", TRUE)
    \/ \E sdk_event \in SdkEvents : StreamEvent(1, sdk_event)
    \/ StreamEnd(1)
    \/ StreamRaise(1)

SpecStream == InitDefault /\ [][NextStream]_vars

(***************************************************************************)
(* SpecRace: the /stream requests of one round of session s1, one per      *)
(* persona, accepted and completed in any order.                           *)
(***************************************************************************)
NextRace ==
    \/ \E r \in StreamIds :
          ServerStream(r, "s1", NoCorrelation, ScenarioPersonas[r],
                       ScenarioPersonas, "X", TRUE)
    \/ \E r \in StreamIds : StreamEvent(r, StrEvent("a"))
    \/ \E r \in StreamIds : StreamEnd(r)
    \/ \E r \in StreamIds : StreamRaise(r)

SpecRace == InitDefault /\ [][NextRace]_vars

(***************************************************************************)
(* SpecServer: requests to /invoke and /stream of session s1, for a        *)
(* persona of the roster or an unknown one.                                *)
(***************************************************************************)
RequestPersonas == {"gandalf", "nobody", "analyst"}

RequestSessions == {"s1", ""}

NextServer ==
    \/ \E correlation_id \in RequestCorrelationIds, persona \in RequestPersonas,
          active_personas \in ActiveLists, agent_ok \in BOOLEAN :
          ServerInvoke("s1", correlation_id, persona, active_personas, "X",
                       agent_ok, TRUE, "hi")
    \/ \E correlation_id \in RequestCorrelationIds, persona \in RequestPersonas,
          active_personas \in ActiveLists, agent_ok \in BOOLEAN :
          ServerStream(1, "s1", correlation_id, persona, active_personas, "X",
                       agent_ok)
    \/ StreamEvent(1, StrEvent("a"))
    \/ StreamEnd(1)
    \/ StreamRaise(1)

SpecServer == InitDefault /\ [][NextServer]_vars

(***************************************************************************)
(* SpecSeen: two rounds that two sessions may both pass the correlation    *)
(* ids of, asked for by a persona of the room.                             *)
(***************************************************************************)
SharedCorrelationIds == {1, 2}

NextSeen ==
    \E session_id \in SessionIds, correlation_id \in SharedCorrelationIds,
       active_personas \in ActiveLists :
        GetObjectiveForPersona(session_id, correlation_id, "gandalf",
                               active_personas)

SpecSeen == InitDefault /\ [][NextSeen]_vars

(***************************************************************************)
(* SpecAtomic: /invoke handlers and /stream handlers of session s1 run     *)
(* concurrently for the same round: a handler runs up to its first         *)
(* suspension point in one step (the whole of /invoke, whose model call    *)
(* does not yield to the event loop; /stream up to its StreamingResponse), *)
(* and the generators of the streams take their steps in any order         *)
(* between the handlers.                                                   *)
(***************************************************************************)
AtomicPersonas == {"gandalf", "angry_chef"}

RoundCorrelationIds == RequestCorrelationIds \ {NoCorrelation}

NextAtomic ==
    \/ \E correlation_id \in RoundCorrelationIds, persona \in AtomicPersonas,
          active_personas \in ActiveLists :
          ServerInvoke("s1", correlation_id, persona, active_personas, "X",
                       TRUE, TRUE, "hi")
    \/ \E r \in StreamIds, correlation_id \in RoundCorrelationIds,
          persona \in AtomicPersonas, active_personas \in ActiveLists :
          ServerStream(r, "s1", correlation_id, persona, active_personas, "X",
                       TRUE)
    \/ \E r \in StreamIds : StreamEvent(r, StrEvent("a"))
    \/ \E r \in StreamIds : StreamEnd(r)
    \/ \E r \in StreamIds : StreamRaise(r)

SpecAtomic == InitDefault /\ [][NextAtomic]_vars

(***************************************************************************)
(* SpecOneShot: requests to /invoke and /stream for gandalf, with and      *)
(* without a session id and a correlation id, whose model call may fail.   *)
(***************************************************************************)
NextOneShot ==
    \/ \E session_id \in RequestSessions, correlation_id \in RequestCorrelationIds,
          model_ok \in BOOLEAN :
          ServerInvoke(session_id, correlation_id, "gandalf", <<"gandalf">>, "X",
                       TRUE, model_ok, "hi")
    \/ \E session_id \in RequestSessions, correlation_id \in RequestCorrelationIds :
          ServerStream(1, session_id, correlation_id, "gandalf", <<"gandalf">>,
                       "X", TRUE)
    \/ StreamEvent(1, StrEvent("a"))
    \/ StreamEnd(1)
    \/ StreamRaise(1)

SpecOneShot == InitDefault /\ [][NextOneShot]_vars

(***************************************************************************)
(* Properties of the session store.                                        *)
(***************************************************************************)
\* The responses of the round, as the entries append_assistant stores.
RoundResponses ==
    [i \in 1..Len(round.responses) |->
        AssistantEntry(round.responses[i], round.personas[i])]

\* A round has been started and all its requests have been served.
RoundDelivered == Len(round.personas) > 0 /\ ~InRound

\* C10 (fan-out dedup): after a round delivered one request at a time the
\* history of its session is what it was before the round, then the user
\* message once, then the responses of the personas.
FanOutDedup ==
    RoundDelivered =>
        sessions[round.session_id] =
            before
            \o (IF IsDuplicate(before, round.message)
                THEN <<>>
                ELSE <<UserEntry(round.message)>>)
            \o RoundResponses

\* The display name the attribution is to show for a persona key: the key
\* with its underscores replaced by spaces and each word capitalized.
Capitalized(persona) ==
    CASE persona = "" -> ""
      [] persona = "gandalf" -> "Gandalf"
      [] persona = "your_nan" -> "Your Nan"
      [] persona = "angry_chef" -> "Angry Chef"
      [] persona = "film_noir_detective" -> "Film Noir Detective"

\* A response as the model is to be shown it: attributed to its persona.
Attributed(persona, text) ==
    [role |-> "assistant",
     content |-> <<[text |-> "(" \o Capitalized(persona) \o " said) " \o text]>>]

\* The assistant messages of the context that were not in the history when
\* the round started.
ResponsesRead ==
    SelectSeq(SubSeq(messages, Len(before) + 1, Len(messages)),
              LAMBDA m : m.role = "assistant")

\* C11 (sequential visibility): the context read by the k-th request of a
\* round holds the responses of requests 1..k-1 of the round, in request
\* order and each attributed to its persona, and once the k-th request is
\* served its response is the last entry of the history.
SequentialVisibility ==
    Len(round.responses) >= 1 =>
        LET k == Len(round.responses)
            history == sessions[round.session_id]
        IN  /\ ResponsesRead =
                 [i \in 1..(k - 1) |->
                     Attributed(round.personas[i], round.responses[i])]
            /\ history[Len(history)] =
                 AssistantEntry(round.responses[k], round.personas[k])

\* C11 witness: the third request of a round has been served.
SequentialVisibilityWitness ==
    /\ Len(round.responses) = 3
    /\ Len(ResponsesRead) = 2

(***************************************************************************)
(* Properties of the store's methods, over the recorded calls.             *)
(***************************************************************************)
\* The history of a session in a store, empty for a session not in it.
HistoryIn(store, session_id) ==
    IF session_id \in DOMAIN store THEN store[session_id] ELSE <<>>

\* The store after calls[i].
StoreAfter(i) == IF i < Len(calls) THEN snaps[i + 1] ELSE sessions

\* The last entry of the history is a user entry with this content.
EndsWithUser(history, content) ==
    /\ history # <<>>
    /\ history[Len(history)].role = "user"
    /\ history[Len(history)].content = content

\* calls[i] repeats calls[i - 1], and both are append_user.
IsRepeatedAppendUser(i) ==
    /\ i >= 2
    /\ calls[i].op = "append_user"
    /\ calls[i - 1] = calls[i]

\* append_user(s, X) on a history that ends with the user entry X leaves
\* the store as it is.
DedupNoOp ==
    \A i \in 1..Len(calls) :
        (/\ calls[i].op = "append_user"
         /\ EndsWithUser(HistoryIn(snaps[i], calls[i].session_id), calls[i].content))
        => StoreAfter(i) = snaps[i]

\* C12 as stated (dedup idempotence): the no-op, and two consecutive
\* append_user(s, X) calls add exactly one user entry X from any state.
DedupAddsOneFromAnyState ==
    /\ DedupNoOp
    /\ \A i \in 1..Len(calls) :
          IsRepeatedAppendUser(i) =>
              HistoryIn(StoreAfter(i), calls[i].session_id) =
                  Append(HistoryIn(snaps[i - 1], calls[i].session_id),
                         [role |-> "user", content |-> calls[i].content])

\* C12 as amended: the no-op, and two consecutive append_user(s, X) calls
\* add exactly one user entry X when the history did not end with the user
\* entry X before them, and none when it did.
DedupIdempotence ==
    /\ DedupNoOp
    /\ \A i \in 1..Len(calls) :
          IsRepeatedAppendUser(i) =>
              LET start == HistoryIn(snaps[i - 1], calls[i].session_id)
              IN  HistoryIn(StoreAfter(i), calls[i].session_id) =
                      IF EndsWithUser(start, calls[i].content)
                      THEN start
                      ELSE Append(start, [role |-> "user",
                                          content |-> calls[i].content])

\* C12 witness: append_user(s, X) was called twice in a row on a history
\* that ended with a response.
DedupIdempotenceWitness ==
    \E i \in 1..Len(calls) :
        /\ IsRepeatedAppendUser(i)
        /\ LET start == HistoryIn(snaps[i - 1], calls[i].session_id)
           IN  start # <<>> /\ start[Len(start)].role = "assistant"
        /\ i = Len(calls)

\* C29 (positional dedup): append_user(s, X) leaves the history of s as it
\* is if and only if its last entry is the user entry X, and appends the
\* user entry X to it otherwise, an X stored earlier in the history
\* notwithstanding.
PositionalDedup ==
    \A i \in 1..Len(calls) :
        calls[i].op = "append_user" =>
            LET start == HistoryIn(snaps[i], calls[i].session_id)
                after == HistoryIn(StoreAfter(i), calls[i].session_id)
            IN  /\ EndsWithUser(start, calls[i].content) => after = start
                /\ ~EndsWithUser(start, calls[i].content) =>
                      after = Append(start, [role |-> "user",
                                             content |-> calls[i].content])
                /\ after = start <=> EndsWithUser(start, calls[i].content)

\* C29 witness: append_user(s, X), another append to s, append_user(s, X)
\* again: the history holds X twice.
PositionalDedupWitness ==
    /\ Len(calls) = 3
    /\ calls[1].op = "append_user"
    /\ calls[3] = calls[1]
    /\ calls[2] # calls[1]
    /\ calls[2].session_id = calls[1].session_id
    /\ LET after == HistoryIn(sessions, calls[1].session_id)
       IN  /\ Len(after) = 3
           /\ after[1] = after[3]
           /\ after[1].content = calls[1].content

\* calls[i - 1] and calls[i] are append_user on one session with different
\* contents.
IsAppendUserPair(i) ==
    /\ i >= 2
    /\ calls[i - 1].op = "append_user"
    /\ calls[i].op = "append_user"
    /\ calls[i - 1].session_id = calls[i].session_id
    /\ calls[i - 1].content # calls[i].content

\* C13 (no dedup across distinct content): after append_user(s, X) then
\* append_user(s, Y) with X # Y the history ends with the user entry X
\* followed by the user entry Y, and append_user appends whenever the last
\* entry is not a user entry with the same content.
DistinctContentKept ==
    /\ \A i \in 1..Len(calls) :
          IsAppendUserPair(i) =>
              LET history == HistoryIn(StoreAfter(i), calls[i].session_id)
              IN  /\ Len(history) >= 2
                  /\ history[Len(history) - 1] =
                       [role |-> "user", content |-> calls[i - 1].content]
                  /\ history[Len(history)] =
                       [role |-> "user", content |-> calls[i].content]
    /\ \A i \in 1..Len(calls) :
          (/\ calls[i].op = "append_user"
           /\ ~EndsWithUser(HistoryIn(snaps[i], calls[i].session_id),
                            calls[i].content))
          => HistoryIn(StoreAfter(i), calls[i].session_id) =
                 Append(HistoryIn(snaps[i], calls[i].session_id),
                        [role |-> "user", content |-> calls[i].content])

\* C13 witness: append_user(s, X) then append_user(s, Y) were called on a
\* history that already ended with the user entry X.
DistinctContentKeptWitness ==
    \E i \in 1..Len(calls) :
        /\ IsAppendUserPair(i)
        /\ EndsWithUser(HistoryIn(snaps[i - 1], calls[i].session_id),
                        calls[i - 1].content)
        /\ i = Len(calls)

\* C14 (append_assistant): every append_assistant(s, text, persona) grows
\* the history of s by exactly one entry, with role assistant, that content
\* and that persona tag, also when the last entry is equal to it; every
\* assistant entry of every history carries a persona tag.
AssistantAlwaysAppended ==
    /\ \A i \in 1..Len(calls) :
          calls[i].op = "append_assistant" =>
              HistoryIn(StoreAfter(i), calls[i].session_id) =
                  Append(HistoryIn(snaps[i], calls[i].session_id),
                         [role |-> "assistant", content |-> calls[i].content,
                          metadata |-> [persona |-> calls[i].persona]])
    /\ \A session_id \in DOMAIN sessions :
          \A j \in 1..Len(sessions[session_id]) :
              sessions[session_id][j].role = "assistant" =>
                  /\ "metadata" \in DOMAIN sessions[session_id][j]
                  /\ "persona" \in DOMAIN sessions[session_id][j].metadata

\* C14 witness: the same append_assistant call was made twice in a row.
AssistantAlwaysAppendedWitness ==
    \E i \in 2..Len(calls) :
        /\ calls[i].op = "append_assistant"
        /\ calls[i - 1] = calls[i]
        /\ i = Len(calls)
        /\ Len(sessions[calls[i].session_id]) >= 2

\* The first sequence is a prefix of the second.
IsPrefix(short, long) ==
    /\ Len(short) <= Len(long)
    /\ SubSeq(long, 1, Len(short)) = short

\* What an append call adds to a history is its own entry, at the end.
EntriesInCallOrder ==
    \A i \in 1..Len(calls) :
          /\ \A session_id \in DOMAIN StoreAfter(i) :
                LET was == HistoryIn(snaps[i], session_id)
                    now == StoreAfter(i)[session_id]
                IN  \/ now = was
                    \/ /\ session_id = calls[i].session_id
                       /\ Len(now) = Len(was) + 1
                       /\ IsPrefix(was, now)
                       /\ now[Len(now)].content = calls[i].content
                       /\ now[Len(now)].role =
                             IF calls[i].op = "append_user"
                             THEN "user" ELSE "assistant"

\* C15 (append-only log): over every operation of the store, read or
\* append, every session stays and its history before the operation is a
\* prefix of its history after it; entries appear in call order.
AppendOnlyLog ==
    /\ []EntriesInCallOrder
    /\ [][\A session_id \in DOMAIN sessions :
            /\ session_id \in DOMAIN sessions'
            /\ IsPrefix(sessions[session_id], sessions'[session_id])]_vars

\* C15 witness: a history of three entries, read after the third call.
AppendOnlyLogWitness ==
    /\ Len(calls) = 3
    /\ read.fn # NoneVal
    /\ Len(HistoryIn(sessions, calls[3].session_id)) = 3
    /\ calls[1].op = "append_assistant"

\* C16 (get_messages): the list returned has the length, order and roles
\* of the stored history, each element holds role and content only, a user
\* entry keeps its content, and a session never written to gives the
\* empty list.
MessagesMirrorHistory ==
    read.fn = "get_messages" =>
        LET history == HistoryIn(sessions, read.session_id)
        IN  /\ Len(read.value) = Len(history)
            /\ \A i \in 1..Len(history) :
                  /\ DOMAIN read.value[i] = {"role", "content"}
                  /\ read.value[i].role = history[i].role
                  /\ history[i].role = "user" =>
                        read.value[i].content = history[i].content
            /\ read.session_id \notin DOMAIN sessions => read.value = <<>>

\* C16 witness: get_messages returned a user message and two responses.
MessagesMirrorHistoryWitness ==
    /\ read.fn = "get_messages"
    /\ Len(read.value) = 3
    /\ read.value[1].role = "user"
    /\ read.value[2].role = "assistant"

\* The calls whose entry is entry j of the messages read: the j-th call
\* that appended to that session.
RECURSIVE AppendingCalls(_, _)
AppendingCalls(i, session_id) ==
    IF i = 0 THEN <<>>
    ELSE IF /\ calls[i].session_id = session_id
            /\ Len(HistoryIn(StoreAfter(i), session_id)) >
                 Len(HistoryIn(snaps[i], session_id))
         THEN Append(AppendingCalls(i - 1, session_id), calls[i])
         ELSE AppendingCalls(i - 1, session_id)

ReadsLeaveStore ==
    /\ [](read.fn = "get_full_history" =>
             read.value = HistoryIn(sessions, read.session_id))
    /\ [][calls' = calls => sessions' = sessions]_vars

\* C18 witness: get_full_history read a session that was never written to
\* while another session held a response with its persona metadata.
ReadsLeaveStoreWitness ==
    /\ read.fn = "get_full_history"
    /\ read.session_id \notin DOMAIN sessions
    /\ \E session_id \in DOMAIN sessions :
          \E j \in 1..Len(sessions[session_id]) :
              "metadata" \in DOMAIN sessions[session_id][j]

(***************************************************************************)
(* Properties of the scenarios.                                            *)
(***************************************************************************)
\* gandalf is the stored saboteur of round c1 and has just made its first
\* call for it.
FirstSaboteurCall ==
    /\ 1 \in DOMAIN round_decisions
    /\ round_decisions[1].saboteur = "gandalf"
    /\ lastCall = [correlation_id |-> 1, persona |-> "gandalf"]
    /\ sabCalls[1] = 1

\* gandalf is the stored saboteur of round c1 and another persona has just
\* called for it.
OtherPersonaCall ==
    /\ 1 \in DOMAIN round_decisions
    /\ round_decisions[1].saboteur = "gandalf"
    /\ lastCall.correlation_id = 1
    /\ lastCall.persona \in {"angry_chef", "your_nan"}

\* C19 as stated (scenario 1): with gandalf picked in round c1 of the fresh
\* session, gandalf's first call returns the prompt of the_ring, and the
\* calls of angry_chef and your_nan return None.
ScenarioRingOnly ==
    /\ FirstSaboteurCall => result = ObjectiveById("the_ring").prompt
    /\ OtherPersonaCall => result = NoneVal

\* C19 as amended: gandalf's first call returns the prompt of one of its
\* three candidates, the_ring, pedantic_rules_lawyer or identity_crisis,
\* and the calls of angry_chef and your_nan return None.
ScenarioCandidates ==
    /\ FirstSaboteurCall =>
          result \in {ObjectiveById("the_ring").prompt,
                      ObjectiveById("pedantic_rules_lawyer").prompt,
                      ObjectiveById("identity_crisis").prompt}
    /\ OtherPersonaCall => result = NoneVal

\* C19 witness: gandalf got a prompt for c1 and your_nan then called.
ScenarioCandidatesWitness ==
    /\ OtherPersonaCall
    /\ lastCall.persona = "your_nan"
    /\ hits[1] = 1

\* C20 (a failed activation counts the round): a correlation id stored
\* with the empty decision has returned None to every caller and is among
\* the ids seen by its session; the round counter of a session is the
\* number of ids it has seen; and the cooldown history holds one entry per
\* decision stored with an objective, none for an empty one.
FailedActivationCounts ==
    /\ \A c \in DOMAIN round_decisions :
          round_decisions[c] = EmptyDecision =>
              /\ lastCall.correlation_id = c => result = NoneVal
              /\ returned[c] = {}
              /\ c \in DictGet(session_correlation_ids, "s1", {})
    /\ DictGet(session_round_counter, "s1", 0) =
          Cardinality(DictGet(session_correlation_ids, "s1", {}))
    /\ Len(DictGet(session_history, "s1", <<>>)) =
          Cardinality({c \in DOMAIN round_decisions :
                          round_decisions[c].objective # NoneVal})

\* C20 witness: round 1 was sabotaged, the roll of round 2 failed, a
\* persona has called for round 2 and the counter is 2.
FailedActivationCountsWitness ==
    /\ DOMAIN round_decisions = {1, 2}
    /\ round_decisions[1].objective # NoneVal
    /\ round_decisions[2] = EmptyDecision
    /\ lastCall.correlation_id = 2
    /\ session_round_counter["s1"] = 2
    /\ Len(session_history["s1"]) = 1

(***************************************************************************)
(* Properties of the round decision, over the recorded draw.               *)
(***************************************************************************)
\* The ids of the catalog's objectives that list the persona or list
\* nobody, less those the history holds for the persona within
\* cooldown_rounds of the round.
CandidatesLeft(persona, history, round_number) ==
    {OBJECTIVES[i].id : i \in {j \in 1..Len(OBJECTIVES) :
        /\ \/ OBJECTIVES[j].compatible_personas = <<>>
           \/ \E k \in 1..Len(OBJECTIVES[j].compatible_personas) :
                 OBJECTIVES[j].compatible_personas[k] = persona
        /\ ~\E h \in 1..Len(history) :
              /\ history[h][1] = persona
              /\ history[h][2] = OBJECTIVES[j].id
              /\ round_number - history[h][3] <= config.cooldown_rounds}}

\* The cooldown history of session s1, empty if the engine holds none.
LedgerOf(histories) == DictGet(histories, "s1", <<>>)

\* The step is a round decision whose roll passed and whose every active
\* persona has no candidate left.
ExhaustedDecision ==
    /\ drawn' # NoDraw
    /\ drawn'.value <= config.chance_per_round
    /\ Len(drawn'.active_personas) > 0
    /\ \A i \in 1..Len(drawn'.active_personas) :
          CandidatesLeft(drawn'.active_personas[i], LedgerOf(session_history),
                         session_round_counter'["s1"]) = {}

\* C21 (candidate exhaustion): a round decision whose roll passes and
\* whose saboteur has no candidate left stores the empty decision, appends
\* no cooldown entry and raises nothing, and every call under a
\* correlation id stored with the empty decision returns None.
CandidateExhaustion ==
    /\ [][ExhaustedDecision =>
            /\ round_decisions'[lastCall'.correlation_id] = EmptyDecision
            /\ result' = NoneVal
            /\ LedgerOf(session_history') = LedgerOf(session_history)]_vars
    /\ [](\A c \in DOMAIN round_decisions :
            (round_decisions[c] = EmptyDecision /\ lastCall.correlation_id = c)
            => result = NoneVal)

\* C21 witness: the roll of round 2 passed, its only active persona held
\* its only objective in round 1, and the empty decision was stored.
CandidateExhaustionWitness ==
    /\ drawn # NoDraw
    /\ drawn.value <= config.chance_per_round
    /\ drawn.active_personas = <<"nobody">>
    /\ lastCall.correlation_id = 2
    /\ 2 \in DOMAIN round_decisions
    /\ round_decisions[2] = EmptyDecision
    /\ LedgerOf(session_history) = <<<<"nobody", "identity_crisis", 1>>>>

\* C27 (activation threshold): a round decision stores the empty decision
\* for a draw above chance_per_round; for a draw at or below it the
\* saboteur is selected: from an empty list that raises, and otherwise the
\* decision names the persona unless the persona has no candidate left.
ActivationThreshold ==
    drawn # NoDraw =>
        LET c == lastCall.correlation_id
        IN  IF drawn.value > config.chance_per_round
            THEN /\ c \in DOMAIN round_decisions
                 /\ round_decisions[c] = EmptyDecision
                 /\ result = NoneVal
            ELSE IF drawn.active_personas = <<>>
                 THEN result = IndexError /\ c \notin DOMAIN round_decisions
                 ELSE /\ c \in DOMAIN round_decisions
                      /\ \/ round_decisions[c].saboteur = drawn.active_personas[1]
                         \/ /\ round_decisions[c] = EmptyDecision
                            /\ CandidatesLeft(drawn.active_personas[1],
                                              LedgerOf(session_history),
                                              session_round_counter["s1"]) = {}

\* C27 witness: with chance_per_round = 0 a draw of 0 selected a saboteur.
ActivationThresholdWitness ==
    /\ config.chance_per_round = 0
    /\ drawn # NoDraw
    /\ drawn.value = 0
    /\ lastCall.correlation_id \in DOMAIN round_decisions
    /\ round_decisions[lastCall.correlation_id].saboteur = "nobody"

\* The correlation ids some session has seen.
SeenIds ==
    UNION {session_correlation_ids[s] : s \in DOMAIN session_correlation_ids}

\* The step stores the decision of correlation id c.
StoresDecision(c) ==
    c \notin DOMAIN round_decisions /\ c \in DOMAIN round_decisions'

\* The step is a call under a correlation id whose decision is stored.
IsLaterCall(c) ==
    c \in DOMAIN round_decisions /\ lastCall'.correlation_id = c

\* C28 (first call decides): a saboteur is stored for a correlation id by
\* the first call made under it and is one of that call's active_personas
\* (an id seen before the call that stores its saboteur is one whose first
\* call passed another list); a later call under the id changes nothing of
\* the engine but the decision's messages_remaining; and only the stored
\* saboteur is handed an objective.
FirstCallDecides ==
    [][\A c \in CorrelationIds :
          /\ (StoresDecision(c) /\ round_decisions'[c].saboteur # NoneVal) =>
                /\ c \notin SeenIds
                /\ InList(round_decisions'[c].saboteur, drawn'.active_personas)
          /\ IsLaterCall(c) =>
                /\ UNCHANGED <<session_history, session_round_counter,
                               session_correlation_ids>>
                /\ DOMAIN round_decisions' = DOMAIN round_decisions
                /\ \A d \in DOMAIN round_decisions :
                      /\ round_decisions'[d].saboteur = round_decisions[d].saboteur
                      /\ round_decisions'[d].objective = round_decisions[d].objective
                      /\ d # c => round_decisions'[d] = round_decisions[d]
                /\ IsPrompt(result') =>
                      lastCall'.persona = round_decisions[c].saboteur]_vars

(***************************************************************************)
(* The cooldown ledger.                                                    *)
(***************************************************************************)
\* The correlation ids stored with a saboteur: the activated decisions.
ActivatedIds ==
    {c \in DOMAIN round_decisions : round_decisions[c].saboteur # NoneVal}

\* One entry per activated decision of the session, with round numbers
\* strictly increasing and at most the session's round counter.
LedgerWellFormed ==
    LET ledger == LedgerOf(session_history)
    IN  /\ Len(ledger) = Cardinality(ActivatedIds)
        /\ \A a, b \in 1..Len(ledger) : a < b => ledger[a][3] < ledger[b][3]
        /\ \A a \in 1..Len(ledger) :
              ledger[a][3] <= DictGet(session_round_counter, "s1", 0)

\* C22 (cooldown ledger): the cooldown history of a session only grows at
\* its end, holds one entry per activated round decision and none for a
\* non-activated one, and its round numbers are strictly increasing and at
\* most the session's round counter.
CooldownLedger ==
    /\ []LedgerWellFormed
    /\ [][IsPrefix(LedgerOf(session_history), LedgerOf(session_history'))]_vars

(***************************************************************************)
(* The /stream endpoint.                                                   *)
(***************************************************************************)
\* C23 (SSE terminal guarantee): whatever the SDK yielded, and whether its
\* iterator ended or raised, the last event a closed /stream response
\* emitted is a complete or an error event.
TerminalGuarantee ==
    \A r \in StreamIds :
        streams[r].pc = "closed" =>
            /\ Len(streams[r].emitted) > 0
            /\ streams[r].emitted[Len(streams[r].emitted)].type
                   \in {"complete", "error"}

(***************************************************************************)
(* The configuration.                                                      *)
(***************************************************************************)
\* The config dict lacks one of its numeric parameters.
Malformed(cfg) ==
    \E key \in {"chance_per_round", "duration_messages", "cooldown_rounds"} :
        key \notin DOMAIN cfg

\* C24 (startup configuration error): an engine given a malformed
\* configuration fails as it is constructed, so no call of
\* get_objective_for_persona has run on it.
StartupConfigError ==
    Malformed(config) => lastCall = NoCall /\ session_round_counter = EmptyDict

(***************************************************************************)
(* The catalog.                                                            *)
(***************************************************************************)
\* Unique ids, positive weights, and every signature objective compatible
\* with the persona it is the signature of.
CatalogValid ==
    /\ \A i, j \in 1..Len(catalog) : catalog[i].id = catalog[j].id => i = j
    /\ \A i \in 1..Len(catalog) : catalog[i].weight > 0
    /\ \A i \in 1..Len(catalog) :
          catalog[i].signature_for # NoneVal =>
              InList(catalog[i].signature_for, catalog[i].compatible_personas)

\* C25 (catalog validity): every objective of the catalog has an id of its
\* own and a weight above 0 and lists the persona it is the signature of
\* among its compatible personas, and no call of the engine changes the
\* catalog.
CatalogValidity ==
    /\ []CatalogValid
    /\ [][catalog' = catalog]_vars

\* C25 witness: the engine has stored a decision with an objective of the
\* catalog and handed its prompt out.
CatalogValidityWitness ==
    /\ ActivatedIds # {}
    /\ \E i \in 1..Len(catalog) : result = catalog[i].prompt
    /\ Len(catalog) = Len(OBJECTIVES)

(***************************************************************************)
(* Overlapping /stream requests of one session.                            *)
(***************************************************************************)
\* The position of the record of op for request r in the log, 0 if the log
\* holds none.
LogPos(op, r) ==
    IF \E i \in 1..Len(log) : log[i] = [op |-> op, req |-> r]
    THEN CHOOSE i \in 1..Len(log) : log[i] = [op |-> op, req |-> r]
    ELSE 0

\* Request r1's stream had ended, its response saved, when r2 was accepted.
EndedBefore(r1, r2) ==
    /\ LogPos("end", r1) > 0
    /\ LogPos("end", r1) < LogPos("accept", r2)

\* The messages built for request r2 hold a response of r1's persona.
SeesResponseOf(r2, r1) ==
    \E i \in 1..Len(streams[r2].messages) :
        \E text \in {"", "a", "aa", "aaa", "aaaa"} :
            streams[r2].messages[i] = Attributed(streams[r1].persona, text)

\* The requests whose stream has ended, in the order the streams ended.
Completed == SelectSeq(log, LAMBDA e : e.op = "end")

\* The assistant entries of session s1.
SavedResponses ==
    SelectSeq(DictGet(sessions, "s1", <<>>), LAMBDA e : e.role = "assistant")

\* C26 (same-session race): the messages built for a /stream request hold
\* the response of another request of the session exactly when that
\* request's stream had ended before this one was accepted, so a request
\* accepted while the other is still streaming is answered without it; and
\* the responses are stored in the order the streams ended.
SameSessionRace ==
    /\ \A r1, r2 \in StreamIds :
          (r1 # r2 /\ streams[r1].pc # "idle" /\ streams[r2].pc # "idle")
          => (SeesResponseOf(r2, r1) <=> EndedBefore(r1, r2))
    /\ Len(SavedResponses) = Len(Completed)
    /\ \A i \in 1..Len(Completed) :
          SavedResponses[i] =
              AssistantEntry(streams[Completed[i].req].full_text,
                             streams[Completed[i].req].persona)

\* C26 witness: request 2 was accepted while request 1 was streaming and
\* ended first: its messages lack the response of request 1, and the
\* store holds request 2's response before request 1's.
SameSessionRaceWitness ==
    /\ log = <<[op |-> "accept", req |-> 1], [op |-> "accept", req |-> 2],
               [op |-> "end", req |-> 2], [op |-> "end", req |-> 1]>>
    /\ ~SeesResponseOf(2, 1)
    /\ Len(SavedResponses) = 2
    /\ SavedResponses[1].metadata.persona = streams[2].persona
    /\ SavedResponses[2].metadata.persona = streams[1].persona

(***************************************************************************)
(* The persona check of /invoke and /stream.                               *)
(***************************************************************************)
\* C30 (unknown persona rejection): a request is answered 400 exactly when
\* its persona is not in the roster, and the request answered 400 leaves
\* the engine, the store and the streams as they were and hands no
\* messages to a model.
UnknownPersonaRejected ==
    /\ [](http # NoResponse =>
            (http.status = 400 <=> http.persona \notin get_personas))
    /\ [][(http' # http /\ http'.status = 400) =>
            UNCHANGED <<engineVars, result, lastCall, sessions, messages,
                        streams, log>>]_vars

\* C30 witness: a request for a persona outside the roster was answered
\* 400 by a server whose engine and store hold a round of session s1.
UnknownPersonaRejectedWitness ==
    /\ http.status = 400
    /\ http.persona = "nobody"
    /\ 1 \in DOMAIN round_decisions
    /\ "s1" \in DOMAIN sessions

(***************************************************************************)
(* Requests without a session id or without a correlation id.              *)
(***************************************************************************)
\* The step handles a request: the record of the last request changes.
HandlesRequest == http' # http

\* The messages the request handled by the step handed to its model.
ContextBuilt ==
    IF http'.endpoint = "/invoke" THEN messages' ELSE streams'[1].messages

\* The history of s1 once the request's user message X is appended to it.
WithUserMessage ==
    IF EndsWithUser(HistoryIn(sessions, "s1"), "X")
    THEN HistoryIn(sessions, "s1")
    ELSE Append(HistoryIn(sessions, "s1"), [role |-> "user", content |-> "X"])

\* C31 (one-shot and uncorrelated requests): a request without a session
\* id changes neither the store nor the engine, as its stream runs and
\* closes included, and hands its model the single user message; a
\* request of session s1 without a correlation id is given no objective and changes nothing of the engine, and its user
\* message, and the response of /invoke, are appended to the history of s1.
OneShotFrame ==
    [][/\ (~HandlesRequest /\ streams' # streams /\ streams[1].session_id = "")
          => UNCHANGED <<sessions, engineVars>>
       /\ (HandlesRequest /\ http'.status = 200) =>
           /\ http'.session_id = "" =>
                 /\ UNCHANGED <<sessions, engineVars>>
                 /\ http'.objective_prompt = NoneVal
                 /\ ContextBuilt =
                       <<[role |-> "user", content |-> <<[text |-> "X"]>>]>>
           /\ (http'.session_id = "s1" /\ http'.correlation_id = NoCorrelation) =>
                 /\ UNCHANGED engineVars
                 /\ http'.objective_prompt = NoneVal
                 /\ Len(ContextBuilt) = Len(WithUserMessage)
                 /\ HistoryIn(sessions', "s1") =
                       IF http'.endpoint = "/invoke"
                       THEN Append(WithUserMessage,
                                   [role |-> "assistant", content |-> "hi",
                                    metadata |-> [persona |-> "gandalf"]])
                       ELSE WithUserMessage]_vars

\* C31 witness: /invoke answered a request without a session id, with the
\* single user message as its context, on a server whose store and engine
\* hold a round of session s1.
OneShotFrameWitness ==
    /\ http.endpoint = "/invoke"
    /\ http.status = 200
    /\ http.session_id = ""
    /\ messages = <<[role |-> "user", content |-> <<[text |-> "X"]>>]>>
    /\ Len(HistoryIn(sessions, "s1")) >= 2
    /\ 1 \in DOMAIN round_decisions

\* A step of /invoke: the only handler that touches neither a stream nor
\* the log of the streams.
InvokeStep == UNCHANGED <<streams, log>>

\* /invoke, for a request of session s1, left on an exception of
\* agent(messages).
InvokeFails ==
    /\ InvokeStep
    /\ http'.endpoint = "/invoke"
    /\ http'.detail = "ModelError"
    /\ http'.session_id = "s1"

\* The generator of a request of session s1 catches an exception of
\* stream_async.
StreamFails ==
    /\ streams[1].pc = "streaming"
    /\ streams[1].session_id = "s1"
    /\ log' = Append(log, [op |-> "raise", req |-> 1])

\* messages_remaining of the decision of correlation id c, as the request
\* found it: of a decision not yet made, the full duration.
RemainingBefore(c) ==
    IF c \in DOMAIN round_decisions
    THEN round_decisions[c].messages_remaining
    ELSE config.duration_messages

\* C32 (failed model call): when the model call of a request of session s1
\* fails, no assistant entry is appended for it, the user message it
\* appended stays in the history, and the use of the objective it consumed
\* stays consumed: /invoke leaves the history as the user message made it
\* and messages_remaining one below what the request found, and the
\* raising stream changes neither the store nor the engine.
FailedModelCall ==
    [][/\ InvokeFails =>
            /\ HistoryIn(sessions', "s1") = WithUserMessage
            /\ IsPrompt(http'.objective_prompt) =>
                  /\ http'.correlation_id \in DOMAIN round_decisions'
                  /\ round_decisions'[http'.correlation_id].messages_remaining
                        = RemainingBefore(http'.correlation_id) - 1
       /\ StreamFails =>
            /\ UNCHANGED <<sessions, engineVars>>
            /\ \E i \in 1..Len(HistoryIn(sessions', "s1")) :
                  HistoryIn(sessions', "s1")[i] = [role |-> "user", content |-> "X"]
            /\ IsPrompt(streams[1].objective_prompt) =>
                  round_decisions'[1].messages_remaining < config.duration_messages
      ]_vars

\* C32 witness: the stream of a request of session s1 that was given the
\* objective raised, then the model call of /invoke, given the objective
\* too, raised: both uses are consumed and the history holds the user
\* message and no assistant entry.
FailedModelCallWitness ==
    /\ streams[1].pc = "closed"
    /\ streams[1].session_id = "s1"
    /\ IsPrompt(streams[1].objective_prompt)
    /\ Len(log) = 2 /\ log[2] = [op |-> "raise", req |-> 1]
    /\ http.endpoint = "/invoke" /\ http.detail = "ModelError"
    /\ IsPrompt(http.objective_prompt)
    /\ round_decisions[1].messages_remaining = 0
    /\ HistoryIn(sessions, "s1") = <<[role |-> "user", content |-> "X"]>>

\* C33 (decision well-formedness): every stored round decision has a
\* saboteur exactly if it has an objective, an empty decision has no
\* message left, and messages_remaining lies between 0 and
\* duration_messages.
DecisionWellFormed ==
    \A c \in DOMAIN round_decisions :
        LET decision == round_decisions[c]
        IN  /\ (decision.saboteur = NoneVal) <=> (decision.objective = NoneVal)
            /\ decision.saboteur = NoneVal => decision.messages_remaining = 0
            /\ decision.messages_remaining >= 0
            /\ decision.messages_remaining <= config.duration_messages

\* C33 witness: an empty decision is stored next to a decision whose
\* objective was handed out duration_messages times, and the saboteur asked
\* once more.
DecisionWellFormedWitness ==
    /\ config.duration_messages = 2
    /\ \E c \in DOMAIN round_decisions : round_decisions[c] = EmptyDecision
    /\ \E c \in DOMAIN round_decisions :
          /\ round_decisions[c].saboteur = "gandalf"
          /\ round_decisions[c].messages_remaining = 0
          /\ lastCall.correlation_id = c
          /\ lastCall.persona = "gandalf"
          /\ result = NoneVal

\* The correlation id of the call the step makes.
CalledId == lastCall'.correlation_id

\* C34 (frame of a call): a call that returns None for a correlation id
\* already decided changes nothing of the engine; messages_remaining of a
\* stored decision changes only for the id of a call that returns a
\* prompt, and that call leaves it exactly one below what it found.
NoneCallFrame ==
    [][/\ (CalledId \in DOMAIN round_decisions /\ result' = NoneVal)
            => UNCHANGED engineVars
       /\ \A c \in DOMAIN round_decisions :
            /\ c \in DOMAIN round_decisions'
            /\ round_decisions'[c].messages_remaining
                  # round_decisions[c].messages_remaining
                  => (IsPrompt(result') /\ c = CalledId)
       /\ IsPrompt(result') =>
            /\ CalledId \in DOMAIN round_decisions'
            /\ round_decisions'[CalledId].messages_remaining
                  = RemainingBefore(CalledId) - 1
      ]_vars

\* C34 witness: the saboteur was handed the objective once, and the call
\* of another persona for the same correlation id then returned None.
NoneCallFrameWitness ==
    /\ lastCall.correlation_id \in DOMAIN round_decisions
    /\ lastCall.persona = "nobody"
    /\ result = NoneVal
    /\ round_decisions[lastCall.correlation_id].saboteur = "gandalf"
    /\ round_decisions[lastCall.correlation_id].messages_remaining = 1
    /\ config.duration_messages = 2

\* calls[i] and calls[j] are append_user with the same content, on
\* sessions whose histories were equal as the calls were made.
SameAppendUser(i, j) ==
    /\ calls[i].op = "append_user"
    /\ calls[j].op = "append_user"
    /\ calls[i].content = calls[j].content
    /\ HistoryIn(snaps[i], calls[i].session_id)
          = HistoryIn(snaps[j], calls[j].session_id)

\* C35 (session isolation): append_user and append_assistant on a session
\* leave the history of every other session as it was, and two append_user
\* calls with the same content on equal histories leave equal histories,
\* whatever the other sessions hold.
SessionIsolation ==
    /\ \A i \in 1..Len(calls) :
          \A s \in SessionIds \ {calls[i].session_id} :
              HistoryIn(StoreAfter(i), s) = HistoryIn(snaps[i], s)
    /\ \A i, j \in 1..Len(calls) :
          SameAppendUser(i, j) =>
              HistoryIn(StoreAfter(i), calls[i].session_id)
                = HistoryIn(StoreAfter(j), calls[j].session_id)

\* C35 witness: X was appended to s1, then to s2 while s1 ended with it,
\* and s2 got its own entry; an assistant entry then went to s1 only.
SessionIsolationWitness ==
    /\ Len(calls) = 3
    /\ calls[1] = CallRecord("append_user", "s1", "X", NoneVal)
    /\ calls[2] = CallRecord("append_user", "s2", "X", NoneVal)
    /\ calls[3].op = "append_assistant" /\ calls[3].session_id = "s1"
    /\ HistoryIn(sessions, "s2") = <<[role |-> "user", content |-> "X"]>>
    /\ Len(HistoryIn(sessions, "s1")) = 2

\* The sessions the engine has a round counter or a seen set for.
EngineSessions == DOMAIN session_round_counter \cup DOMAIN session_correlation_ids

\* C36 (counter and seen set): the round counter of every session equals
\* the number of correlation ids its seen set holds, and every correlation
\* id with a stored decision is in the seen set of some session.
CounterMatchesSeen ==
    /\ \A s \in EngineSessions :
          DictGet(session_round_counter, s, 0)
            = Cardinality(DictGet(session_correlation_ids, s, {}))
    /\ \A c \in DOMAIN round_decisions :
          \E s \in DOMAIN session_correlation_ids :
              c \in session_correlation_ids[s]

\* C36 witness: two sessions have seen rounds, one of them a correlation
\* id the other decided, and one call left on an IndexError after the bump.
CounterMatchesSeenWitness ==
    /\ DOMAIN session_correlation_ids = {"s1", "s2"}
    /\ session_round_counter["s1"] = 2
    /\ session_round_counter["s2"] = 1
    /\ session_correlation_ids["s2"] \subseteq session_correlation_ids["s1"]
    /\ \E c \in session_correlation_ids["s1"] : c \notin DOMAIN round_decisions

\* A handler runs up to its first suspension point: /invoke as a whole, or
\* /stream up to the response it starts or the error it answers with.
RequestStep ==
    \/ UNCHANGED <<streams, log>>
    \/ Len(log') = Len(log) + 1 /\ log'[Len(log')].op = "accept"

\* The handler of the step called the engine.
ConsultingStep == RequestStep /\ http'.status # 400

\* The round counter of s1 and the correlation ids s1 has seen.
RoundsOf(counter) == DictGet(counter, "s1", 0)

SeenBy(seen) == DictGet(seen, "s1", {})

\* The engine call of a handler, as one uninterrupted step, leaves the
\* correlation id c with one decision, made once; bumps the counter once
\* for a round not seen and not at all for a round seen; and hands out the
\* objective only while uses are left, taking one.
OneCallEffect(c) ==
    /\ c \in DOMAIN round_decisions'
    /\ c \in DOMAIN round_decisions =>
          /\ round_decisions'[c].saboteur = round_decisions[c].saboteur
          /\ round_decisions'[c].objective = round_decisions[c].objective
    /\ RoundsOf(session_round_counter')
          = RoundsOf(session_round_counter)
              + (IF c \in SeenBy(session_correlation_ids) THEN 0 ELSE 1)
    /\ RoundsOf(session_round_counter')
          = Cardinality(SeenBy(session_correlation_ids'))
    /\ round_decisions'[c].messages_remaining
          = IF IsPrompt(http'.objective_prompt)
            THEN RemainingBefore(c) - 1
            ELSE IF c \in DOMAIN round_decisions THEN RemainingBefore(c)
                 ELSE round_decisions'[c].messages_remaining
    /\ round_decisions'[c].messages_remaining >= 0

\* C37 (engine atomicity): in every interleaving of /invoke and /stream
\* handlers at their suspension points, the engine is changed only by the
\* handlers' uninterrupted calls, each of which leaves its correlation id
\* with exactly one round decision, the round counter bumped once per
\* round, and the objective handed to the saboteur at most
\* duration_messages times.
EngineAtomicity ==
    [][/\ ~RequestStep => UNCHANGED engineVars
       /\ ConsultingStep => OneCallEffect(http'.correlation_id)]_vars

====
